---------------------------- MODULE Spec2Model ----------------------------
(***************************************************************************)
(* A model of the noteeees memory log and of the notes-mcp server's        *)
(* structure_search_notes tool (notes-mcp/src/index.ts).                   *)
(*                                                                         *)
(* Strings are TLA+ strings, used as sequences of characters.  A JS number *)
(* is modelled in fixed point: a finite number is [t |-> "number",         *)
(* tenths |-> n] and stands for n/10, so that Math.floor has something to  *)
(* do; NaN, Infinity and undefined are the other values of t.  Time is in  *)
(* whole minutes of local wall-clock time since 1970-01-01 00:00.          *)
(* The Japanese words of the built-in synonym table are written in         *)
(* romanised lower-case ASCII (keihi = 経費, seisan = 精算, ...).          *)
(***************************************************************************)
EXTENDS Integers, Sequences, FiniteSets, TLC

VARIABLES
    log,      \* memory.md: [exists |-> BOOLEAN, text |-> the file's content]
    now,      \* the host's clock, in minutes
    req,      \* the tool call waiting to be handled: its arguments, or NoCall
    call,     \* the last tool call handled: its arguments, what the handler
              \* computed on the way and the object it returned; or NoCall
    callAt,   \* the clock reading when that call was handled
    first,    \* what the first call with these arguments on this log returned
    firstAt,  \* the clock reading of that first call
    quickAdds \* the Quick Add commands of the extension host: for each, where
              \* it stands, the file as it was when its input box opened, and
              \* the entry it wrote

vars == <<log, now, req, call, callAt, first, firstAt, quickAdds>>

(***************************************************************************)
(* Bounds of the model.                                                    *)
(***************************************************************************)
MaxEntries == 3
MaxTicks == 1

(***************************************************************************)
(* String primitives of the JS runtime the code relies on.                 *)
(***************************************************************************)
CharAt(s, i) == SubSeq(s, i, i)

Min(a, b) == IF a < b THEN a ELSE b
Max(a, b) == IF a > b THEN a ELSE b

UpperChars == "ABCDEFGHIJKLMNOPQRSTUVWXYZ"
LowerChars == "abcdefghijklmnopqrstuvwxyz"
DigitChars == "0123456789"

IndexIn(alphabet, c) ==
    IF \E i \in 1..Len(alphabet) : CharAt(alphabet, i) = c
    THEN CHOOSE i \in 1..Len(alphabet) : CharAt(alphabet, i) = c
    ELSE 0

CharsOf(alphabet) == {CharAt(alphabet, i) : i \in 1..Len(alphabet)}
UpperSet == CharsOf(UpperChars)
DigitSet == CharsOf(DigitChars)
WordSet == CharsOf(UpperChars) \cup CharsOf(LowerChars) \cup CharsOf(DigitChars) \cup {"_"}
LowerOf == [c \in UpperSet |-> CharAt(LowerChars, IndexIn(UpperChars, c))]
DigitOf == [c \in DigitSet |-> IndexIn(DigitChars, c) - 1]

IsDigit(c) == c \in DigitSet
\* \w of a JS regular expression: [A-Za-z0-9_]
IsWordChar(c) == c \in WordSet
\* \s restricted to the white space the model's inputs hold
IsSpace(c) == c \in {" ", "\t", "\n"}

toLowerCaseChar(c) == IF c \in UpperSet THEN LowerOf[c] ELSE c

RECURSIVE toLowerCase(_)
toLowerCase(s) ==
    IF s = "" THEN "" ELSE toLowerCaseChar(Head(s)) \o toLowerCase(Tail(s))

startsWith(s, p) == Len(p) <= Len(s) /\ SubSeq(s, 1, Len(p)) = p

\* String.prototype.includes
includes(s, t) ==
    \E i \in 1..(Len(s) - Len(t) + 1) : SubSeq(s, i, i + Len(t) - 1) = t

\* Array.prototype.includes
arrayIncludes(arr, v) == \E i \in 1..Len(arr) : arr[i] = v

slice0(s, n) == SubSeq(s, 1, Min(n, Len(s)))

RECURSIVE trimStart(_)
trimStart(s) ==
    IF s # "" /\ IsSpace(Head(s)) THEN trimStart(Tail(s)) ELSE s

RECURSIVE trimEnd(_)
trimEnd(s) ==
    IF s # "" /\ IsSpace(CharAt(s, Len(s)))
    THEN trimEnd(SubSeq(s, 1, Len(s) - 1))
    ELSE s

trim(s) == trimEnd(trimStart(s))

\* the first position from i on where s holds a character of the set, or 0
RECURSIVE indexOfAny(_, _, _)
indexOfAny(s, set, i) ==
    IF i > Len(s) THEN 0
    ELSE IF CharAt(s, i) \in set THEN i
    ELSE indexOfAny(s, set, i + 1)

\* s.split(sep) for a one-character separator: always at least one part
RECURSIVE splitChar(_, _)
splitChar(s, sep) ==
    LET i == indexOfAny(s, {sep}, 1)
    IN IF i = 0 THEN <<s>>
       ELSE <<SubSeq(s, 1, i - 1)>> \o splitChar(SubSeq(s, i + 1, Len(s)), sep)

\* s.split(/\s+/): runs of white space separate; a leading or trailing run
\* leaves an empty first or last part
RECURSIVE splitSpaces(_)
splitSpaces(s) ==
    LET i == indexOfAny(s, {" ", "\t", "\n"}, 1)
    IN IF i = 0 THEN <<s>>
       ELSE <<SubSeq(s, 1, i - 1)>> \o splitSpaces(trimStart(SubSeq(s, i, Len(s))))

RECURSIVE join(_, _)
join(arr, sep) ==
    IF Len(arr) = 0 THEN ""
    ELSE IF Len(arr) = 1 THEN arr[1]
    ELSE arr[1] \o sep \o join(Tail(arr), sep)

\* [...new Set(arr)]: the first occurrence of every value, in order
RECURSIVE uniq(_)
uniq(arr) ==
    IF Len(arr) = 0 THEN <<>>
    ELSE LET init == uniq(SubSeq(arr, 1, Len(arr) - 1))
             last == arr[Len(arr)]
         IN IF arrayIncludes(init, last) THEN init ELSE Append(init, last)


(***************************************************************************)
(* parseMemoryFile: memory.md to the sequence of its entries.              *)
(***************************************************************************)
\* \d{4}-\d{2}-\d{2} at position i of s
isDateAt(s, i) ==
    /\ i + 9 <= Len(s)
    /\ \A k \in {0, 1, 2, 3, 5, 6, 8, 9} : IsDigit(CharAt(s, i + k))
    /\ CharAt(s, i + 4) = "-"
    /\ CharAt(s, i + 7) = "-"

\* " \d{2}:\d{2}" at position i of s
isTimeAt(s, i) ==
    /\ i + 5 <= Len(s)
    /\ CharAt(s, i) = " "
    /\ \A k \in {1, 2, 4, 5} : IsDigit(CharAt(s, i + k))
    /\ CharAt(s, i + 3) = ":"

\* line.match(/^## (\d{4}-\d{2}-\d{2}(?: \d{2}:\d{2})?)(.*)$/): <<>> for null,
\* else <<[1], [2]>>
headerMatch(line) ==
    IF startsWith(line, "## ") /\ isDateAt(line, 4)
    THEN LET n == IF isTimeAt(line, 14) THEN 16 ELSE 10
         IN <<SubSeq(line, 4, 3 + n), SubSeq(line, 4 + n, Len(line))>>
    ELSE <<>>

isTagChar(c) == IsWordChar(c) \/ c = "-"

\* the end of the run of [\w-] characters that starts at i
RECURSIVE tagRunEnd(_, _)
tagRunEnd(s, i) ==
    IF i + 1 <= Len(s) /\ isTagChar(CharAt(s, i + 1)) THEN tagRunEnd(s, i + 1) ELSE i

\* s.match(/#[\w-]+/g) || []
RECURSIVE matchTags(_)
matchTags(s) ==
    LET starts == {i \in 1..(Len(s) - 1) :
                       CharAt(s, i) = "#" /\ isTagChar(CharAt(s, i + 1))}
    IN IF starts = {} THEN <<>>
       ELSE LET i == CHOOSE k \in starts : \A j \in starts : k <= j
                e == tagRunEnd(s, i + 1)
            IN <<SubSeq(s, i, e)>> \o matchTags(SubSeq(s, e + 1, Len(s)))

\* s.match(/@(\d{4}-\d{2}-\d{2})/): <<>> for null, else <<[1]>>
reminderMatch(s) ==
    LET starts == {i \in 1..Len(s) : CharAt(s, i) = "@" /\ isDateAt(s, i + 1)}
    IN IF starts = {} THEN <<>>
       ELSE LET i == CHOOSE k \in starts : \A j \in starts : k <= j
            IN <<SubSeq(s, i + 1, i + 10)>>

\* the body of the for loop: entries pushed so far and the open entry
\* (<<>> for null) after one more line
parseLine(acc, line) ==
    LET hm == headerMatch(line)
        cur == acc.currentEntry
    IN IF hm # <<>>
       THEN [entries |-> IF cur # <<>> THEN Append(acc.entries, cur[1]) ELSE acc.entries,
             currentEntry |-> <<[dateTime |-> hm[1],
                                 tags |-> matchTags(hm[2]),
                                 content |-> "",
                                 reminder |-> reminderMatch(hm[2])]>>]
       ELSE IF cur # <<>> /\ trim(line) # "" /\ ~startsWith(line, "# ")
       THEN [acc EXCEPT !.currentEntry =
                 <<[cur[1] EXCEPT !.content =
                        cur[1].content \o (IF cur[1].content # "" THEN "\n" ELSE "") \o line]>>]
       ELSE acc

RECURSIVE parseLines(_, _)
parseLines(acc, lines) ==
    IF Len(lines) = 0 THEN acc
    ELSE parseLines(parseLine(acc, Head(lines)), Tail(lines))

\* a parser that reports a missing file as an entry
parseMemoryFile_MissingReported(file) ==
    IF ~file.exists
    THEN <<[dateTime |-> "", tags |-> <<>>, content |-> "ENOENT", reminder |-> <<>>]>>
    ELSE LET acc == parseLines([entries |-> <<>>, currentEntry |-> <<>>],
                               splitChar(file.text, "\n"))
         IN IF acc.currentEntry # <<>>
            THEN Append(acc.entries, acc.currentEntry[1])
            ELSE acc.entries

parseMemoryFile(file) ==
    IF ~file.exists THEN <<>>
    ELSE LET acc == parseLines([entries |-> <<>>, currentEntry |-> <<>>],
                               splitChar(file.text, "\n"))
         IN IF acc.currentEntry # <<>>
            THEN Append(acc.entries, acc.currentEntry[1])
            ELSE acc.entries

(***************************************************************************)
(* The tokenizer.                                                          *)
(***************************************************************************)
normalize(text) == toLowerCase(text)

tokenizeQuery(query) ==
    SelectSeq([i \in 1..Len(splitSpaces(trim(query))) |->
                   normalize(splitSpaces(trim(query))[i])],
              LAMBDA token : Len(token) > 0)

(***************************************************************************)
(* The weight resolver.                                                    *)
(***************************************************************************)
Undefined == [t |-> "undefined", tenths |-> 0]
NaN == [t |-> "NaN", tenths |-> 0]
PosInfinity == [t |-> "Infinity", tenths |-> 0]
NegInfinity == [t |-> "-Infinity", tenths |-> 0]
\* the JS number n/10
Tenths(n) == [t |-> "number", tenths |-> n]
\* the JS number n
Num(n) == Tenths(10 * n)

WeightFields ==
    <<"tagExact", "dateMatch", "monthMatch", "tagPartial", "contentMatch",
      "multiTokenBonus", "allTokensBonus">>

DEFAULT_WEIGHTS ==
    [tagExact |-> 6, dateMatch |-> 4, monthMatch |-> 3, tagPartial |-> 3,
     contentMatch |-> 2, multiTokenBonus |-> 3, allTokensBonus |-> 4]

\* Number.isFinite
isFinite(value) == value.t = "number"

\* Math.floor of a finite number: \div rounds towards minus infinity
floor(value) == value.tenths \div 10

\* a resolver that floors but does not clamp
toBoundedInt_NoClamp(value, fallback, min, max) ==
    IF ~isFinite(value) THEN fallback ELSE floor(value)

\* a resolver that takes a non-finite value for zero
toBoundedInt_ZeroFallback(value, fallback, min, max) ==
    IF ~isFinite(value) THEN Min(Max(0, min), max)
    ELSE Min(Max(floor(value), min), max)

toBoundedInt(value, fallback, min, max) ==
    IF ~isFinite(value) THEN fallback
    ELSE Min(Max(floor(value), min), max)

\* overrides?.field ?? DEFAULT_WEIGHTS.field; overrides is <<>> when the
\* call gives no weights, else <<a record of the seven fields>>, a field the
\* caller left out being Undefined
override(overrides, field) ==
    IF overrides = <<>> \/ overrides[1][field].t = "undefined"
    THEN Num(DEFAULT_WEIGHTS[field])
    ELSE overrides[1][field]

\* a resolver that lets every weight go down to 0
getEffectiveWeights_FromZero(overrides) ==
    [f \in {WeightFields[i] : i \in 1..Len(WeightFields)} |->
         toBoundedInt(override(overrides, f), DEFAULT_WEIGHTS[f], 0, 20)]

getEffectiveWeights(overrides) ==
    [tagExact |-> toBoundedInt(override(overrides, "tagExact"), DEFAULT_WEIGHTS.tagExact, 1, 20),
     dateMatch |-> toBoundedInt(override(overrides, "dateMatch"), DEFAULT_WEIGHTS.dateMatch, 1, 20),
     monthMatch |-> toBoundedInt(override(overrides, "monthMatch"), DEFAULT_WEIGHTS.monthMatch, 1, 20),
     tagPartial |-> toBoundedInt(override(overrides, "tagPartial"), DEFAULT_WEIGHTS.tagPartial, 1, 20),
     contentMatch |-> toBoundedInt(override(overrides, "contentMatch"), DEFAULT_WEIGHTS.contentMatch, 1, 20),
     multiTokenBonus |-> toBoundedInt(override(overrides, "multiTokenBonus"), DEFAULT_WEIGHTS.multiTokenBonus, 0, 20),
     allTokensBonus |-> toBoundedInt(override(overrides, "allTokensBonus"), DEFAULT_WEIGHTS.allTokensBonus, 0, 20)]

(***************************************************************************)
(* The recency bonus.                                                      *)
(***************************************************************************)
digit(c) == DigitOf[c]
number2(s, i) == 10 * digit(CharAt(s, i)) + digit(CharAt(s, i + 1))
number4(s, i) == 100 * number2(s, i) + number2(s, i + 2)

\* days from 1970-01-01 to the civil date y-m-d; a day past the end of its
\* month runs on into the next, as in MakeDay
daysFromCivil(y, m, d) ==
    LET yy == IF m <= 2 THEN y - 1 ELSE y
        era == yy \div 400
        yoe == yy - era * 400
        mp == IF m > 2 THEN m - 3 ELSE m + 9
        doy == (153 * mp + 2) \div 5 + d - 1
        doe == yoe * 365 + yoe \div 4 - yoe \div 100 + doy
    IN era * 146097 + doe - 719468

minutesOf(y, m, d, hh, mm) == daysFromCivil(y, m, d) * 1440 + hh * 60 + mm

\* new Date(isoLike).getTime() in minutes, <<>> for null (an Invalid Date).
\* dateTime has passed the header pattern, so the date-time string has the
\* ISO shape and only the ranges of its fields can make it invalid.
parseEntryDate(dateTime) ==
    LET hasTime == includes(dateTime, " ")
        y == number4(dateTime, 1)
        m == number2(dateTime, 6)
        d == number2(dateTime, 9)
        hh == IF hasTime THEN number2(dateTime, 12) ELSE 0
        mm == IF hasTime THEN number2(dateTime, 15) ELSE 0
    IN IF /\ m \in 1..12
          /\ d \in 1..31
          /\ (hh \in 0..23 \/ (hh = 24 /\ mm = 0))
          /\ mm \in 0..59
       THEN <<minutesOf(y, m, d, hh, mm)>>
       ELSE <<>>

\* a recency bonus whose first band ends before the seventh day is over
getRecencyBonus_StrictWeek(dateTime) ==
    LET parsed == parseEntryDate(dateTime)
    IN IF parsed = <<>> THEN 0
       ELSE LET age == now - parsed[1]
            IN IF age < 7 * 1440 THEN 4
               ELSE IF age <= 30 * 1440 THEN 3
               ELSE IF age <= 90 * 1440 THEN 2
               ELSE IF age <= 180 * 1440 THEN 1
               ELSE 0

\* days <= n with days = (now - parsed) / (one day), without the division
getRecencyBonus(dateTime) ==
    LET parsed == parseEntryDate(dateTime)
    IN IF parsed = <<>> THEN 0
       ELSE LET age == now - parsed[1]
            IN IF age <= 7 * 1440 THEN 4
               ELSE IF age <= 30 * 1440 THEN 3
               ELSE IF age <= 90 * 1440 THEN 2
               ELSE IF age <= 180 * 1440 THEN 1
               ELSE 0

(***************************************************************************)
(* The synonym expander.  A Map is the sequence of its [key, values]       *)
(* entries in insertion order.                                             *)
(***************************************************************************)
getBuiltInSynonyms ==
    <<[key |-> "keihi", values |-> <<"seisan", "kotsuhi", "shutchohi">>],
      [key |-> "kaigi", values |-> <<"mtg", "miitingu">>],
      [key |-> "tasuku", values |-> <<"todo", "kadai">>]>>

mapHas(map, key) == \E i \in 1..Len(map) : map[i].key = key

\* map.get(key) ?? []
mapGet(map, key) ==
    IF mapHas(map, key)
    THEN map[CHOOSE i \in 1..Len(map) : map[i].key = key].values
    ELSE <<>>

\* a merge that puts the new values in place of the old
mapAddAll_Replace(map, key, values) ==
    LET m == IF mapHas(map, key) THEN map
             ELSE Append(map, [key |-> key, values |-> <<>>])
    IN [i \in 1..Len(m) |->
           IF m[i].key = key THEN [m[i] EXCEPT !.values = uniq(values)] ELSE m[i]]

\* map.get(key).add(v) for every v of values, creating the key's set first
mapAddAll(map, key, values) ==
    LET m == IF mapHas(map, key) THEN map
             ELSE Append(map, [key |-> key, values |-> <<>>])
    IN [i \in 1..Len(m) |->
           IF m[i].key = key
           THEN [m[i] EXCEPT !.values = uniq(m[i].values \o values)]
           ELSE m[i]]

mapSeq(arr, Op(_)) == [i \in 1..Len(arr) |-> Op(arr[i])]

\* one row "key:v1,v2" of the caller's synonyms merged into the map
addCustomRow(map, row) ==
    LET parts == mapSeq(splitChar(row, ":"), trim)
        rawKey == parts[1]
        rawValues == IF Len(parts) >= 2 THEN parts[2] ELSE ""
    IN IF rawKey = "" \/ rawValues = "" THEN map
       ELSE mapAddAll(map, normalize(rawKey),
                      SelectSeq(mapSeq(splitChar(rawValues, ","),
                                       LAMBDA v : normalize(trim(v))),
                                LAMBDA v : Len(v) > 0))

RECURSIVE addCustomRows(_, _)
addCustomRows(map, rows) ==
    IF Len(rows) = 0 THEN map
    ELSE addCustomRows(addCustomRow(map, Head(rows)), Tail(rows))

RECURSIVE addBuiltIn(_, _)
addBuiltIn(map, rows) ==
    IF Len(rows) = 0 THEN map
    ELSE addBuiltIn(mapAddAll(map, normalize(Head(rows).key),
                              mapSeq(Head(rows).values, normalize)),
                    Tail(rows))

\* customSynonyms is <<>> when the call gives none, else <<the rows>>
getSynonymMap(customSynonyms) ==
    addCustomRows(addBuiltIn(<<>>, getBuiltInSynonyms),
                  IF customSynonyms = <<>> THEN <<>> ELSE customSynonyms[1])

RECURSIVE synonymsOf(_, _)
synonymsOf(tokens, synonymMap) ==
    IF Len(tokens) = 0 THEN <<>>
    ELSE LET token == Head(tokens)
             bareToken == IF startsWith(token, "#") THEN Tail(token) ELSE token
         IN mapGet(synonymMap, bareToken) \o synonymsOf(Tail(tokens), synonymMap)

\* an expansion that also follows the synonyms of the synonyms
expandTokens_TwoHops(tokens, synonymMap) ==
    LET once == uniq(tokens \o synonymsOf(tokens, synonymMap))
    IN uniq(once \o synonymsOf(once, synonymMap))

expandTokens(tokens, synonymMap) == uniq(tokens \o synonymsOf(tokens, synonymMap))

(***************************************************************************)
(* The scorer.                                                             *)
(***************************************************************************)
\* the texts scoreEntry derives from the entry before its loop
entryTexts(entry) ==
    [dateText |-> normalize(entry.dateTime),
     normalizedTags |-> mapSeq(entry.tags, normalize),
     tagText |-> join(mapSeq(entry.tags, normalize), " "),
     contentText |-> normalize(entry.content),
     monthText |-> slice0(entry.dateTime, 7)]

\* a loop body whose tag-exact branch records its reason but adds nothing
scoreToken_TagExactFree(acc, texts, token, weights) ==
    LET tagToken == IF startsWith(token, "#") THEN token ELSE "#" \o token
        hits == <<includes(texts.dateText, token), includes(texts.monthText, token),
                  includes(texts.tagText, token), includes(texts.contentText, token)>>
        gains == <<weights.dateMatch, weights.monthMatch, weights.tagPartial,
                   weights.contentMatch>>
        names == <<"date:", "month:", "tag-partial:", "content:">>
        Gain(i) == IF hits[i] THEN gains[i] ELSE 0
        Why(i) == IF hits[i] THEN <<names[i] \o token>> ELSE <<>>
    IN IF arrayIncludes(texts.normalizedTags, tagToken)
       THEN [acc EXCEPT !.reasons = Append(@, "tag:" \o tagToken)]
       ELSE [score |-> acc.score + Gain(1) + Gain(2) + Gain(3) + Gain(4),
             matchedTokenCount |-> acc.matchedTokenCount
                                   + (IF \E i \in 1..4 : hits[i] THEN 1 ELSE 0),
             reasons |-> acc.reasons \o Why(1) \o Why(2) \o Why(3) \o Why(4)]

\* a loop body that takes the month match instead of the date match
scoreToken_MonthInsteadOfDate(acc, texts, token, weights) ==
    LET tagToken == IF startsWith(token, "#") THEN token ELSE "#" \o token
        isMonth == includes(texts.monthText, token)
        isDate == includes(texts.dateText, token) /\ ~isMonth
        isTagPartial == includes(texts.tagText, token)
        isContent == includes(texts.contentText, token)
    IN IF arrayIncludes(texts.normalizedTags, tagToken)
       THEN [acc EXCEPT !.score = @ + weights.tagExact,
                        !.reasons = Append(@, "tag:" \o tagToken)]
       ELSE [score |-> acc.score
                         + (IF isDate THEN weights.dateMatch ELSE 0)
                         + (IF isMonth THEN weights.monthMatch ELSE 0)
                         + (IF isTagPartial THEN weights.tagPartial ELSE 0)
                         + (IF isContent THEN weights.contentMatch ELSE 0),
             matchedTokenCount |-> acc.matchedTokenCount
                 + (IF isDate \/ isMonth \/ isTagPartial \/ isContent THEN 1 ELSE 0),
             reasons |-> acc.reasons
                         \o (IF isDate THEN <<"date:" \o token>> ELSE <<>>)
                         \o (IF isMonth THEN <<"month:" \o token>> ELSE <<>>)
                         \o (IF isTagPartial THEN <<"tag-partial:" \o token>> ELSE <<>>)
                         \o (IF isContent THEN <<"content:" \o token>> ELSE <<>>)]

\* a loop body whose tag-exact branch falls through to the other checks
scoreToken_NoContinue(acc, texts, token, weights) ==
    LET tagToken == IF startsWith(token, "#") THEN token ELSE "#" \o token
        isExact == arrayIncludes(texts.normalizedTags, tagToken)
        isDate == includes(texts.dateText, token)
        isMonth == includes(texts.monthText, token)
        isTagPartial == includes(texts.tagText, token)
        isContent == includes(texts.contentText, token)
    IN [score |-> acc.score
                      + (IF isExact THEN weights.tagExact ELSE 0)
                      + (IF isDate THEN weights.dateMatch ELSE 0)
                      + (IF isMonth THEN weights.monthMatch ELSE 0)
                      + (IF isTagPartial THEN weights.tagPartial ELSE 0)
                      + (IF isContent THEN weights.contentMatch ELSE 0),
        matchedTokenCount |-> acc.matchedTokenCount
            + (IF isDate \/ isMonth \/ isTagPartial \/ isContent THEN 1 ELSE 0),
        reasons |-> acc.reasons
                    \o (IF isExact THEN <<"tag:" \o tagToken>> ELSE <<>>)
                    \o (IF isDate THEN <<"date:" \o token>> ELSE <<>>)
                    \o (IF isMonth THEN <<"month:" \o token>> ELSE <<>>)
                    \o (IF isTagPartial THEN <<"tag-partial:" \o token>> ELSE <<>>)
                    \o (IF isContent THEN <<"content:" \o token>> ELSE <<>>)]

\* one pass of the for loop over the tokens; acc holds score,
\* matchedTokenCount and reasons
scoreToken(acc, texts, token, weights) ==
    LET tagToken == IF startsWith(token, "#") THEN token ELSE "#" \o token
        isDate == includes(texts.dateText, token)
        isMonth == includes(texts.monthText, token)
        isTagPartial == includes(texts.tagText, token)
        isContent == includes(texts.contentText, token)
        tokenMatched == isDate \/ isMonth \/ isTagPartial \/ isContent
    IN IF arrayIncludes(texts.normalizedTags, tagToken)
       THEN \* continue: the end of the loop body is not reached
            [acc EXCEPT !.score = @ + weights.tagExact,
                        !.reasons = Append(@, "tag:" \o tagToken)]
       ELSE [score |-> acc.score
                         + (IF isDate THEN weights.dateMatch ELSE 0)
                         + (IF isMonth THEN weights.monthMatch ELSE 0)
                         + (IF isTagPartial THEN weights.tagPartial ELSE 0)
                         + (IF isContent THEN weights.contentMatch ELSE 0),
             matchedTokenCount |-> acc.matchedTokenCount + (IF tokenMatched THEN 1 ELSE 0),
             reasons |-> acc.reasons
                         \o (IF isDate THEN <<"date:" \o token>> ELSE <<>>)
                         \o (IF isMonth THEN <<"month:" \o token>> ELSE <<>>)
                         \o (IF isTagPartial THEN <<"tag-partial:" \o token>> ELSE <<>>)
                         \o (IF isContent THEN <<"content:" \o token>> ELSE <<>>)]

RECURSIVE scoreTokens(_, _, _, _)
scoreTokens(acc, texts, tokens, weights) ==
    IF Len(tokens) = 0 THEN acc
    ELSE scoreTokens(scoreToken(acc, texts, Head(tokens), weights), texts,
                     Tail(tokens), weights)

\* if (matchedTokenCount >= 2) ...
multiTokenStep(acc, weights) ==
    IF acc.matchedTokenCount >= 2
    THEN [acc EXCEPT !.score = @ + weights.multiTokenBonus,
                     !.reasons = Append(@, "bonus:multi-token")]
    ELSE acc

\* a bonus step that is content with one matched token
allTokensStep_AnyMatched(acc, tokens, weights) ==
    IF acc.matchedTokenCount >= 1
    THEN [acc EXCEPT !.score = @ + weights.allTokensBonus,
                     !.reasons = Append(@, "bonus:all-tokens")]
    ELSE acc

\* if (matchedTokenCount === tokens.length) ...
allTokensStep(acc, tokens, weights) ==
    IF acc.matchedTokenCount = Len(tokens)
    THEN [acc EXCEPT !.score = @ + weights.allTokensBonus,
                     !.reasons = Append(@, "bonus:all-tokens")]
    ELSE acc

digitString(n) == CharAt(DigitChars, n + 1)

\* a recency step that does not look at the flag
recencyStep_IgnoresFlag(acc, entry, includeRecencyBonus) ==
    LET recencyBonus == getRecencyBonus(entry.dateTime)
    IN IF recencyBonus > 0
       THEN [acc EXCEPT !.score = @ + recencyBonus,
                        !.reasons = Append(@, "bonus:recent+" \o digitString(recencyBonus))]
       ELSE acc

\* if (includeRecencyBonus) ...
recencyStep(acc, entry, includeRecencyBonus) ==
    LET recencyBonus == getRecencyBonus(entry.dateTime)
    IN IF includeRecencyBonus /\ recencyBonus > 0
       THEN [acc EXCEPT !.score = @ + recencyBonus,
                        !.reasons = Append(@, "bonus:recent+" \o digitString(recencyBonus))]
       ELSE acc

\* score, matchedTokenCount and reasons as they stand before the return
scoreAccumulated(entry, tokens, weights, includeRecencyBonus) ==
    recencyStep(
        allTokensStep(
            multiTokenStep(
                scoreTokens([score |-> 0, matchedTokenCount |-> 0, reasons |-> <<>>],
                            entryTexts(entry), tokens, weights),
                weights),
            tokens, weights),
        entry, includeRecencyBonus)

\* a scorer that returns the reasons as recorded
scoreEntry_NoDedup(entry, tokens, weights, includeRecencyBonus) ==
    LET acc == scoreAccumulated(entry, tokens, weights, includeRecencyBonus)
    IN [score |-> acc.score,
        matchedTokenCount |-> acc.matchedTokenCount,
        reasons |-> acc.reasons,
        entry |-> entry]

scoreEntry(entry, tokens, weights, includeRecencyBonus) ==
    LET acc == scoreAccumulated(entry, tokens, weights, includeRecencyBonus)
    IN [score |-> acc.score,
        matchedTokenCount |-> acc.matchedTokenCount,
        reasons |-> uniq(acc.reasons),
        entry |-> entry]

(***************************************************************************)
(* The ranker: the structure_search_notes case of the tool handler.        *)
(***************************************************************************)
\* the collation order of the characters a timestamp is made of
CollationOrder == " -:0123456789"

\* a.localeCompare(b) for strings over those characters: negative, 0 or
\* positive
RECURSIVE localeCompare(_, _)
localeCompare(a, b) ==
    IF a = "" /\ b = "" THEN 0
    ELSE IF a = "" THEN -1
    ELSE IF b = "" THEN 1
    ELSE LET ra == IndexIn(CollationOrder, Head(a))
             rb == IndexIn(CollationOrder, Head(b))
         IN IF ra < rb THEN -1
            ELSE IF ra > rb THEN 1
            ELSE localeCompare(Tail(a), Tail(b))

\* a comparator that breaks ties oldest first
compareRanked_OldestFirst(a, b) ==
    IF b.score - a.score # 0 THEN b.score - a.score
    ELSE localeCompare(a.entry.dateTime, b.entry.dateTime)

\* (a, b) => b.score - a.score || b.entry.dateTime.localeCompare(a.entry.dateTime)
compareRanked(a, b) ==
    IF b.score - a.score # 0 THEN b.score - a.score
    ELSE localeCompare(b.entry.dateTime, a.entry.dateTime)

\* x put into the sorted array behind every element it does not precede
RECURSIVE insertRanked(_, _)
insertRanked(sorted, x) ==
    IF Len(sorted) = 0 THEN <<x>>
    ELSE IF compareRanked(x, Head(sorted)) < 0 THEN <<x>> \o sorted
    ELSE <<Head(sorted)>> \o insertRanked(Tail(sorted), x)

\* Array.prototype.sort with compareRanked: a stable sort
RECURSIVE sortRanked(_)
sortRanked(arr) ==
    IF Len(arr) = 0 THEN <<>>
    ELSE insertRanked(sortRanked(SubSeq(arr, 1, Len(arr) - 1)), arr[Len(arr)])

\* a ranker that does not truncate
rank_Unbounded(results, safeLimit) ==
    sortRanked(SelectSeq(results, LAMBDA result : result.score > 0))

\* .filter(result => result.score > 0).sort(...).slice(0, safeLimit)
rank(results, safeLimit) ==
    LET positive == SelectSeq(results, LAMBDA result : result.score > 0)
        ordered == sortRanked(positive)
    IN SubSeq(ordered, 1, Min(safeLimit, Len(ordered)))

\* the call's arguments after destructuring with its defaults
limitOf(args) == IF args.limit.t = "undefined" THEN Num(10) ELSE args.limit
recencyOf(args) ==
    IF args.include_recency_bonus = <<>> THEN TRUE ELSE args.include_recency_bonus[1]

\* a handler that counts the matches before it truncates the list
structure_search_notes_CountsAll(file, args) ==
    LET entries == parseMemoryFile(file)
        queryTokens == tokenizeQuery(args.query)
        safeLimit == toBoundedInt(limitOf(args), 10, 1, 200)
        expandedTokens == expandTokens(queryTokens, getSynonymMap(args.synonyms))
        effectiveWeights == getEffectiveWeights(args.weights)
        scoredAll == mapSeq(entries,
                            LAMBDA entry : scoreEntry(entry, expandedTokens,
                                                      effectiveWeights, recencyOf(args)))
        ranked == rank(scoredAll, safeLimit)
    IN IF Len(queryTokens) = 0
       THEN [args |-> args, effectiveWeights |-> <<>>, scored |-> <<>>,
             result |-> [error |-> "query is empty"]]
       ELSE [args |-> args, effectiveWeights |-> <<effectiveWeights>>, scored |-> scoredAll,
             result |-> [query |-> args.query,
                         queryTokens |-> queryTokens,
                         expandedTokens |-> expandedTokens,
                         totalMatches |-> Len(SelectSeq(scoredAll, LAMBDA r : r.score > 0)),
                         results |-> ranked]]

\* case "structure_search_notes": effectiveWeights and scored are the
\* handler's locals of that name and the result of entries.map(scoreEntry),
\* both left empty when the query is rejected before they are computed;
\* result is the object the handler serialises as its text content
structure_search_notes(file, args) ==
    LET entries == parseMemoryFile(file)
        queryTokens == tokenizeQuery(args.query)
        safeLimit == toBoundedInt(limitOf(args), 10, 1, 200)
        synonymMap == getSynonymMap(args.synonyms)
        expandedTokens == expandTokens(queryTokens, synonymMap)
        effectiveWeights == getEffectiveWeights(args.weights)
        scoredAll == mapSeq(entries,
                            LAMBDA entry : scoreEntry(entry, expandedTokens,
                                                      effectiveWeights, recencyOf(args)))
        ranked == rank(scoredAll, safeLimit)
    IN IF Len(queryTokens) = 0
       THEN [args |-> args, effectiveWeights |-> <<>>, scored |-> <<>>,
             result |-> [error |-> "query is empty"]]
       ELSE [args |-> args, effectiveWeights |-> <<effectiveWeights>>, scored |-> scoredAll,
             result |-> [query |-> args.query,
                         queryTokens |-> queryTokens,
                         expandedTokens |-> expandedTokens,
                         totalMatches |-> Len(ranked),
                         results |-> ranked]]

(***************************************************************************)
(* The editor's structure search (structureSearchCommand.ts).  Its         *)
(* functions carry the names of the server's; they stand here with the     *)
(* prefix extension_.  The pictograph that opens each reason is left out.  *)
(***************************************************************************)
\* parseMemoryFile of searchCommand.ts: the entries of the log as the
\* specification describes them
extension_parseMemoryFile(file) == parseMemoryFile(file)

extension_tokenizeQuery(query) ==
    SelectSeq([i \in 1..Len(splitSpaces(trim(query))) |->
                   toLowerCase(splitSpaces(trim(query))[i])],
              LAMBDA token : Len(token) > 0)

extension_parseEntryDate(dateTime) ==
    LET hasTime == includes(dateTime, " ")
        y == number4(dateTime, 1)
        m == number2(dateTime, 6)
        d == number2(dateTime, 9)
        hh == IF hasTime THEN number2(dateTime, 12) ELSE 0
        mm == IF hasTime THEN number2(dateTime, 15) ELSE 0
    IN IF /\ m \in 1..12
          /\ d \in 1..31
          /\ (hh \in 0..23 \/ (hh = 24 /\ mm = 0))
          /\ mm \in 0..59
       THEN <<minutesOf(y, m, d, hh, mm)>>
       ELSE <<>>

extension_getRecencyBonus(dateTime) ==
    LET parsed == extension_parseEntryDate(dateTime)
    IN IF parsed = <<>> THEN 0
       ELSE LET age == now - parsed[1]
            IN IF age <= 7 * 1440 THEN 4
               ELSE IF age <= 30 * 1440 THEN 3
               ELSE IF age <= 90 * 1440 THEN 2
               ELSE IF age <= 180 * 1440 THEN 1
               ELSE 0

\* a loop body that counts the token of an exact tag match as matched
extension_scoreToken_CountsTagExact(acc, entry, token) ==
    LET dateText == toLowerCase(entry.dateTime)
        normalizedTags == [i \in 1..Len(entry.tags) |-> toLowerCase(entry.tags[i])]
        tagText == join(normalizedTags, " ")
        contentText == toLowerCase(entry.content)
        monthText == slice0(entry.dateTime, 7)
        tagToken == IF startsWith(token, "#") THEN token ELSE "#" \o token
        isDate == includes(dateText, token)
        isMonth == includes(monthText, token)
        isTagPartial == includes(tagText, token)
        isContent == includes(contentText, token)
    IN IF arrayIncludes(normalizedTags, tagToken)
       THEN [score |-> acc.score + 6,
             matchedTokenCount |-> acc.matchedTokenCount + 1,
             reasons |-> Append(acc.reasons, "tag exact: " \o tagToken)]
       ELSE [score |-> acc.score + (IF isDate THEN 4 ELSE 0) + (IF isMonth THEN 3 ELSE 0)
                         + (IF isTagPartial THEN 3 ELSE 0) + (IF isContent THEN 2 ELSE 0),
             matchedTokenCount |-> acc.matchedTokenCount
                 + (IF isDate \/ isMonth \/ isTagPartial \/ isContent THEN 1 ELSE 0),
             reasons |-> acc.reasons
                         \o (IF isDate THEN <<"date: " \o token>> ELSE <<>>)
                         \o (IF isMonth THEN <<"month: " \o token>> ELSE <<>>)
                         \o (IF isTagPartial THEN <<"tag partial: " \o token>> ELSE <<>>)
                         \o (IF isContent THEN <<"content: " \o token>> ELSE <<>>)]

\* one pass of the for loop of the editor's scoreEntry
extension_scoreToken(acc, entry, token) ==
    LET dateText == toLowerCase(entry.dateTime)
        normalizedTags == [i \in 1..Len(entry.tags) |-> toLowerCase(entry.tags[i])]
        tagText == join(normalizedTags, " ")
        contentText == toLowerCase(entry.content)
        monthText == slice0(entry.dateTime, 7)
        tagToken == IF startsWith(token, "#") THEN token ELSE "#" \o token
        isDate == includes(dateText, token)
        isMonth == includes(monthText, token)
        isTagPartial == includes(tagText, token)
        isContent == includes(contentText, token)
    IN IF arrayIncludes(normalizedTags, tagToken)
       THEN \* continue
            [acc EXCEPT !.score = @ + 6,
                        !.reasons = Append(@, "tag exact: " \o tagToken)]
       ELSE [score |-> acc.score + (IF isDate THEN 4 ELSE 0) + (IF isMonth THEN 3 ELSE 0)
                         + (IF isTagPartial THEN 3 ELSE 0) + (IF isContent THEN 2 ELSE 0),
             matchedTokenCount |-> acc.matchedTokenCount
                 + (IF isDate \/ isMonth \/ isTagPartial \/ isContent THEN 1 ELSE 0),
             reasons |-> acc.reasons
                         \o (IF isDate THEN <<"date: " \o token>> ELSE <<>>)
                         \o (IF isMonth THEN <<"month: " \o token>> ELSE <<>>)
                         \o (IF isTagPartial THEN <<"tag partial: " \o token>> ELSE <<>>)
                         \o (IF isContent THEN <<"content: " \o token>> ELSE <<>>)]

RECURSIVE extension_scoreTokens(_, _, _)
extension_scoreTokens(acc, entry, tokens) ==
    IF Len(tokens) = 0 THEN acc
    ELSE extension_scoreTokens(extension_scoreToken(acc, entry, Head(tokens)), entry,
                               Tail(tokens))

\* the editor's scoreEntry(entry, tokens)
extension_scoreEntry(entry, tokens) ==
    LET looped == extension_scoreTokens(
                      [score |-> 0, matchedTokenCount |-> 0, reasons |-> <<>>], entry, tokens)
        multi == IF looped.matchedTokenCount >= 2
                 THEN [looped EXCEPT !.score = @ + 3,
                                     !.reasons = Append(@, "multi-token match")]
                 ELSE looped
        all == IF multi.matchedTokenCount = Len(tokens)
               THEN [multi EXCEPT !.score = @ + 4,
                                  !.reasons = Append(@, "all tokens matched")]
               ELSE multi
        recencyBonus == extension_getRecencyBonus(entry.dateTime)
        recent == IF recencyBonus > 0
                  THEN [all EXCEPT !.score = @ + recencyBonus,
                                   !.reasons = Append(@, "recent +" \o digitString(recencyBonus))]
                  ELSE all
    IN [entry |-> entry, score |-> recent.score, reasons |-> recent.reasons,
        matchedTokenCount |-> recent.matchedTokenCount]

\* (a, b) => b.score - a.score || b.entry.dateTime.localeCompare(a.entry.dateTime)
extension_compare(a, b) ==
    IF b.score - a.score # 0 THEN b.score - a.score
    ELSE localeCompare(b.entry.dateTime, a.entry.dateTime)

RECURSIVE extension_insert(_, _)
extension_insert(sorted, x) ==
    IF Len(sorted) = 0 THEN <<x>>
    ELSE IF extension_compare(x, Head(sorted)) < 0 THEN <<x>> \o sorted
    ELSE <<Head(sorted)>> \o extension_insert(Tail(sorted), x)

\* Array.prototype.sort with the editor's comparator
RECURSIVE extension_sort(_)
extension_sort(arr) ==
    IF Len(arr) = 0 THEN <<>>
    ELSE extension_insert(extension_sort(SubSeq(arr, 1, Len(arr) - 1)), arr[Len(arr)])

\* showStructureSearch up to the ranked list it shows: tokens, scored and
\* ranked are its locals
showStructureSearch(file, query) ==
    LET entries == extension_parseMemoryFile(file)
        tokens == extension_tokenizeQuery(query)
        scored == [i \in 1..Len(entries) |-> extension_scoreEntry(entries[i], tokens)]
    IN [name |-> "showStructureSearch",
        args |-> [query |-> query],
        tokens |-> tokens,
        scored |-> scored,
        ranked |-> extension_sort(SelectSeq(scored, LAMBDA x : x.score > 0))]

(***************************************************************************)
(* The other cases of the tool handler, and the editor's reminder list.    *)
(***************************************************************************)
\* the UTF-16 code units of the characters the logs hold, in order
CodeUnits == "\t\n #-0123456789:@ABCDEFGHIJKLMNOPQRSTUVWXYZ_abcdefghijklmnopqrstuvwxyz"
CodeUnitRank == [c \in CharsOf(CodeUnits) |-> IndexIn(CodeUnits, c)]

\* a < b for strings
RECURSIVE lessThan(_, _)
lessThan(a, b) ==
    IF b = "" THEN FALSE
    ELSE IF a = "" THEN TRUE
    ELSE LET ra == CodeUnitRank[Head(a)]
             rb == CodeUnitRank[Head(b)]
         IN ra < rb \/ (ra = rb /\ lessThan(Tail(a), Tail(b)))

\* the date of a day count since the epoch
civilFromDays(days) ==
    LET z == days + 719468
        era == z \div 146097
        doe == z - era * 146097
        yoe == (doe - doe \div 1460 + doe \div 36524 - doe \div 146096) \div 365
        doy == doe - (365 * yoe + yoe \div 4 - yoe \div 100)
        mp == (5 * doy + 2) \div 153
        d == doy - (153 * mp + 2) \div 5 + 1
        m == IF mp < 10 THEN mp + 3 ELSE mp - 9
    IN [year |-> yoe + era * 400 + (IF m <= 2 THEN 1 ELSE 0), month |-> m, day |-> d]

\* String(n).padStart(2, "0") for n in 0..99, and String(year) of four digits
pad2(n) == digitString(n \div 10) \o digitString(n % 10)
pad4(n) == pad2(n \div 100) \o pad2(n % 100)

\* date.toISOString().split("T")[0] of a time in minutes
isoDate(minutes) ==
    LET date == civilFromDays(minutes \div 1440)
    IN pad4(date.year) \o "-" \o pad2(date.month) \o "-" \o pad2(date.day)

\* the integer that Array.prototype.slice makes of its end argument;
\* the infinities are cut to a length no array of the model reaches
toIntegerOrInfinity(value) ==
    IF value.t = "NaN" THEN 0
    ELSE IF value.t = "Infinity" THEN 1000
    ELSE IF value.t = "-Infinity" THEN -1000
    ELSE IF value.tenths >= 0 THEN value.tenths \div 10
    ELSE -((-value.tenths) \div 10)

\* arr.slice(0, end)
sliceTo(arr, end) ==
    LET relativeEnd == toIntegerOrInfinity(end)
        final == IF relativeEnd < 0 THEN Max(Len(arr) + relativeEnd, 0)
                 ELSE Min(relativeEnd, Len(arr))
    IN SubSeq(arr, 1, final)

\* the argument, or the default of the destructuring when it is undefined
orDefault(value, default) == IF value.t = "undefined" THEN Num(default) ELSE value

\* case "search_notes"; an argument left out is the empty string
search_notes(entries, args) ==
    LET byTag == IF args.tag # ""
                 THEN SelectSeq(entries, LAMBDA e : arrayIncludes(e.tags, "#" \o args.tag))
                 ELSE entries
        byDate == IF args.date # ""
                  THEN SelectSeq(byTag, LAMBDA e : startsWith(e.dateTime, args.date))
                  ELSE byTag
        lowerQuery == toLowerCase(args.query)
        byQuery == IF args.query # ""
                   THEN SelectSeq(byDate, LAMBDA e :
                            \/ includes(toLowerCase(e.content), lowerQuery)
                            \/ \E i \in 1..Len(e.tags) :
                                   includes(toLowerCase(e.tags[i]), lowerQuery))
                   ELSE byDate
    IN sliceTo(byQuery, orDefault(args.limit, 10))

\* case "get_recent_notes"
get_recent_notes(entries, args) == sliceTo(entries, orDefault(args.limit, 5))

\* case "get_notes_by_tag"
get_notes_by_tag(entries, args) ==
    SelectSeq(entries, LAMBDA e : arrayIncludes(e.tags, "#" \o args.tag))

\* case "get_reminders", for a whole number of days and a process whose
\* time zone is UTC
get_reminders(entries, args) ==
    LET days_ahead == toIntegerOrInfinity(orDefault(args.days_ahead, 7))
        todayStr == isoDate(now)
        futureStr == isoDate(now + days_ahead * 1440)
    IN SelectSeq(entries, LAMBDA e :
           /\ e.reminder # <<>>
           /\ ~lessThan(e.reminder[1], todayStr)
           /\ ~lessThan(futureStr, e.reminder[1]))

\* x put into the sorted array behind every element that is not greater
RECURSIVE insertString(_, _)
insertString(sorted, x) ==
    IF Len(sorted) = 0 THEN <<x>>
    ELSE IF lessThan(x, Head(sorted)) THEN <<x>> \o sorted
    ELSE <<Head(sorted)>> \o insertString(Tail(sorted), x)

\* Array.prototype.sort without a comparator, on strings
RECURSIVE sortStrings(_)
sortStrings(arr) ==
    IF Len(arr) = 0 THEN <<>>
    ELSE insertString(sortStrings(SubSeq(arr, 1, Len(arr) - 1)), arr[Len(arr)])

\* entries.flatMap((e) => e.tags)
RECURSIVE flatTags(_)
flatTags(entries) ==
    IF Len(entries) = 0 THEN <<>>
    ELSE Head(entries).tags \o flatTags(Tail(entries))

\* case "list_tags"
list_tags(entries) == sortStrings(uniq(flatTags(entries)))

\* the switch of the tool handler: entries is the handler's local of that
\* name, result the value serialised into the response
callTool(file, request) ==
    LET entries == parseMemoryFile(file)
        name == request.name
        args == request.arguments
    IN [name |-> name,
        args |-> args,
        entries |-> entries,
        result |-> CASE name = "search_notes" -> search_notes(entries, args)
                     [] name = "get_recent_notes" -> get_recent_notes(entries, args)
                     [] name = "get_notes_by_tag" -> get_notes_by_tag(entries, args)
                     [] name = "get_reminders" -> get_reminders(entries, args)
                     [] name = "list_tags" -> list_tags(entries)
                     [] name = "structure_search_notes"
                            -> structure_search_notes(file, args).result]

\* s.replace(/@\d{4}-\d{2}-\d{2}\s*/g, "") from position i on
RECURSIVE skipSpaces(_, _)
skipSpaces(s, i) ==
    IF i <= Len(s) /\ IsSpace(CharAt(s, i)) THEN skipSpaces(s, i + 1) ELSE i

RECURSIVE removeReminders(_, _)
removeReminders(s, i) ==
    IF i > Len(s) THEN ""
    ELSE IF CharAt(s, i) = "@" /\ isDateAt(s, i + 1)
    THEN removeReminders(s, skipSpaces(s, i + 11))
    ELSE CharAt(s, i) \o removeReminders(s, i + 1)

\* the reminders with the one of the entry read so far, if it has one
pushReminder(acc) ==
    IF acc.currentContent # "" /\ reminderMatch(acc.currentContent) # <<>>
    THEN Append(acc.reminders,
                [dateTime |-> acc.currentDateTime,
                 content |-> trim(removeReminders(acc.currentContent, 1)),
                 reminderDate |-> reminderMatch(acc.currentContent)[1],
                 line |-> acc.currentLine])
    ELSE acc.reminders

\* the body of extractReminders' loop for line i (counted from 0)
extractLine(acc, line, i) ==
    LET hm == headerMatch(line)
    IN IF hm # <<>>
       THEN [reminders |-> pushReminder(acc),
             currentDateTime |-> hm[1],
             currentContent |-> hm[2],
             currentLine |-> i]
       ELSE IF trim(line) # "" /\ ~startsWith(line, "# ")
       THEN [acc EXCEPT !.currentContent = @ \o "\n" \o line]
       ELSE acc

RECURSIVE extractLines(_, _, _)
extractLines(acc, lines, i) ==
    IF i >= Len(lines) THEN acc
    ELSE extractLines(extractLine(acc, lines[i + 1], i), lines, i + 1)

\* x put into the sorted reminders behind every one it does not precede
RECURSIVE insertReminder(_, _)
insertReminder(sorted, x) ==
    IF Len(sorted) = 0 THEN <<x>>
    ELSE IF localeCompare(x.reminderDate, Head(sorted).reminderDate) < 0
    THEN <<x>> \o sorted
    ELSE <<Head(sorted)>> \o insertReminder(Tail(sorted), x)

RECURSIVE sortReminders(_)
sortReminders(arr) ==
    IF Len(arr) = 0 THEN <<>>
    ELSE insertReminder(sortReminders(SubSeq(arr, 1, Len(arr) - 1)), arr[Len(arr)])

extractReminders(file) ==
    IF ~file.exists THEN <<>>
    ELSE LET acc == extractLines([reminders |-> <<>>, currentDateTime |-> "",
                                  currentContent |-> "", currentLine |-> 0],
                                 splitChar(file.text, "\n"), 0)
         IN sortReminders(pushReminder(acc))

(***************************************************************************)
(* The log file and the inputs of the model.                               *)
(***************************************************************************)
MEMORY_HEADER == "# Memory Log\n\n"

\* fs.existsSync(filePath) || fs.writeFileSync(filePath, MEMORY_HEADER)
ensureMemoryFile(file) ==
    IF file.exists THEN file ELSE [exists |-> TRUE, text |-> MEMORY_HEADER]

\* the first place at or after i where pattern stands in s, 0 when none
RECURSIVE indexOf(_, _, _)
indexOf(s, pattern, i) ==
    IF i + Len(pattern) - 1 > Len(s) THEN 0
    ELSE IF SubSeq(s, i, i + Len(pattern) - 1) = pattern THEN i
    ELSE indexOf(s, pattern, i + 1)

\* s.replace(pattern, replacement) for a string pattern: the first
\* occurrence only
replaceFirst(s, pattern, replacement) ==
    LET i == indexOf(s, pattern, 1)
    IN IF i = 0 THEN s
       ELSE SubSeq(s, 1, i - 1) \o replacement \o SubSeq(s, i + Len(pattern), Len(s))

\* formatDateTime of the time in minutes, for a process whose time zone is
\* UTC; dateFormat is the setting notes.dateFormat, "" when it is not set
formatDateTime(minutes, dateFormat) ==
    LET format == IF dateFormat = "" THEN "YYYY-MM-DD HH:mm" ELSE dateFormat
        date == civilFromDays(minutes \div 1440)
        year == pad4(date.year)
        month == pad2(date.month)
        day == pad2(date.day)
        hours == pad2((minutes % 1440) \div 60)
        mins == pad2(minutes % 60)
    IN replaceFirst(replaceFirst(replaceFirst(replaceFirst(replaceFirst(
           format, "YYYY", year), "MM", month), "DD", day), "HH", hours), "mm", mins)

\* the end of the run of \w characters that starts at i
RECURSIVE wordRunEnd(_, _)
wordRunEnd(s, i) ==
    IF i <= Len(s) /\ IsWordChar(CharAt(s, i)) THEN wordRunEnd(s, i + 1) ELSE i

\* input.match(/#\w+/g) || [] from position i on
RECURSIVE matchWordTags(_, _)
matchWordTags(s, i) ==
    IF i > Len(s) THEN <<>>
    ELSE IF CharAt(s, i) = "#" /\ wordRunEnd(s, i + 1) > i + 1
    THEN <<SubSeq(s, i, wordRunEnd(s, i + 1) - 1)>> \o matchWordTags(s, wordRunEnd(s, i + 1))
    ELSE matchWordTags(s, i + 1)

\* input.replace(/#\w+\s*/g, "") from position i on
RECURSIVE removeWordTags(_, _)
removeWordTags(s, i) ==
    IF i > Len(s) THEN ""
    ELSE IF CharAt(s, i) = "#" /\ wordRunEnd(s, i + 1) > i + 1
    THEN removeWordTags(s, skipSpaces(s, wordRunEnd(s, i + 1)))
    ELSE CharAt(s, i) \o removeWordTags(s, i + 1)

\* the text notes.quickAdd writes for the input; position is the setting
\* notes.entryPosition
quickAdd(file, input, position, dateFormat) ==
    LET tags == join(matchWordTags(input, 1), " ")
        content == trim(removeWordTags(input, 1))
        dateTime == formatDateTime(now, dateFormat)
        existingContent == ensureMemoryFile(file).text
        tagSection == IF tags # "" THEN " " \o tags ELSE ""
        newEntry == "\n## " \o dateTime \o tagSection \o "\n" \o content \o "\n\n"
    IN IF position = "top"
       THEN IF startsWith(existingContent, MEMORY_HEADER)
            THEN MEMORY_HEADER \o newEntry
                     \o SubSeq(existingContent, Len(MEMORY_HEADER) + 1, Len(existingContent))
            ELSE MEMORY_HEADER \o newEntry \o existingContent
       ELSE existingContent \o newEntry

\* entry blocks a user writes into memory.md
EntryBlocks ==
    {"## 2026-02-01 #todo\nBuy milk\n\n",
     "## 2026-01-15 #meeting\nDiscuss roadmap\n",
     "## 2026-02-03 10:30 #todo #Todo-list @2026-02-10\nseisan keihi 2026-02\n\n",
     "## 2025-06-01 #keihi\nTODO taxi\n# Heading\n## 2025-6-1 #bad\n"}

NoCall == [none |-> TRUE]

BaseArgs(q) ==
    [query |-> q, limit |-> Undefined, include_recency_bonus |-> <<>>,
     synonyms |-> <<>>, weights |-> <<>>]

NoRecency(args) == [args EXCEPT !.include_recency_bonus = <<FALSE>>]

Queries ==
    {"#todo", "2026-02", "  \t ", "", "#todo todo", "keihi", " TODO  milk",
     "zzz", "2026-02-0 tod"}

Limits == {Num(1), Num(2), Tenths(15), Num(0), Num(250), NaN}

AllFields(v) ==
    [tagExact |-> v, dateMatch |-> v, monthMatch |-> v, tagPartial |-> v,
     contentMatch |-> v, multiTokenBonus |-> v, allTokensBonus |-> v]

WeightOverrides ==
    {AllFields(Num(0)), AllFields(Num(20)),
     [AllFields(Undefined) EXCEPT !.tagExact = Num(1), !.contentMatch = Num(25)],
     [AllFields(Num(1)) EXCEPT !.multiTokenBonus = Num(20), !.allTokensBonus = Undefined]}

SynonymRules ==
    {<<"keihi:seisan">>,
     <<"Milk : Buy ,,", "bad", ":x", "todo:", "keihi:taxi:cab">>}

Requests ==
    {BaseArgs(q) : q \in Queries}
    \cup {NoRecency(BaseArgs(q)) : q \in {"#todo", "2026-02", "#todo todo", "keihi", "zzz"}}
    \cup {NoRecency([BaseArgs("milk 2026-0") EXCEPT !.limit = l]) : l \in Limits}
    \cup {[BaseArgs("#todo 2026-02 milk") EXCEPT !.weights = <<w>>] : w \in WeightOverrides}
    \cup {[BaseArgs("keihi") EXCEPT !.synonyms = <<rows>>] : rows \in SynonymRules}
    \cup {[BaseArgs("milk") EXCEPT !.synonyms = <<rows>>] : rows \in SynonymRules}

\* calls sent a second time, later
RepeatRequests ==
    {BaseArgs("#todo"), BaseArgs("2026-02-0 tod"),
     NoRecency(BaseArgs("#todo")), NoRecency(BaseArgs("2026-02-0 tod"))}

\* numbers a caller may give for a weight
OverrideValues ==
    {Undefined, NaN, PosInfinity, NegInfinity, Num(-4), Tenths(-5), Num(0), Tenths(5),
     Num(1), Num(7), Tenths(199), Num(20), Tenths(205), Num(21), Num(300)}

\* calls that override one weight, or all seven alike
WeightRequests ==
    {[BaseArgs("todo") EXCEPT !.weights = <<[AllFields(Undefined) EXCEPT ![f] = v]>>] :
         f \in {WeightFields[i] : i \in 1..Len(WeightFields)}, v \in OverrideValues}
    \cup {[BaseArgs("todo") EXCEPT !.weights = <<AllFields(v)>>] : v \in OverrideValues}
    \cup {BaseArgs("todo")}

\* rows a caller may give as synonyms, well formed and not
SynonymRows ==
    {"keihi:seisan", "KEIHI : Taxi , seisan,,", "keihi:kaigi", "seisan:keihi",
     "Milk:Buy,MILK", "bad", ":x", "todo:", " : "}

\* calls that differ in their synonyms: none, one row, or two rows
SynonymRequests ==
    {[BaseArgs(q) EXCEPT !.synonyms = rows] :
         q \in {"keihi", "#Keihi seisan", "seisan", "tasuku todo", "milk kaigi"},
         rows \in {<<>>} \cup {<<<<r>>>> : r \in SynonymRows}
                  \cup {<<<<r1, r2>>>> : r1, r2 \in SynonymRows}}

\* blocks of text a user writes into memory.md, with and without headers
ParserBlocks ==
    {"## 2026-02-01 #todo\nBuy milk\n\n",
     "loose note @2026-02-07\n",
     "## 2026-02-04 10:30 #work-log #Todo @2026-02-06\n# Heading\n  \nPay rent @2026-02-20\n",
     "##2026-02-02 #bad\n## 2026-2-3\n",
     "## 2026-01-15\n"}

\* a tools/call request: the name of the tool and its arguments
ToolRequest(name, arguments) == [name |-> name, arguments |-> arguments]

SearchArgs(query, tag, date) ==
    [query |-> query, tag |-> tag, date |-> date, limit |-> Undefined]

ToolRequests ==
    {ToolRequest("search_notes", SearchArgs("", "", "")),
     ToolRequest("search_notes", SearchArgs("TODO", "", "2026-02")),
     ToolRequest("search_notes", SearchArgs("rent", "work-log", "")),
     ToolRequest("get_recent_notes", [limit |-> Undefined]),
     ToolRequest("get_recent_notes", [limit |-> Num(1)]),
     ToolRequest("get_notes_by_tag", [tag |-> "todo"]),
     ToolRequest("get_reminders", [days_ahead |-> Undefined]),
     ToolRequest("get_reminders", [days_ahead |-> Num(30)]),
     ToolRequest("list_tags", <<>>),
     ToolRequest("structure_search_notes", NoRecency(BaseArgs("rent"))),
     ToolRequest("structure_search_notes", BaseArgs(" "))}

\* what a user types into the Quick Add box
QuickInputs == {"#todo Buy milk", "call #work-log #a1  Bob"}

\* the settings notes.entryPosition and notes.dateFormat; the date format is
\* free text, of which formatDateTime replaces the five tokens
EntryPositions == {"top", "bottom"}
DateFormats == {"", "YYYY-MM-DD", "DD-MM-YYYY"}

RecentRequests ==
    {ToolRequest("get_recent_notes", [limit |-> l]) : l \in {Undefined, Num(1), Num(2)}}

\* limits a caller may give to the tools that take one
CallLimits == {Undefined, Num(1), Num(2), Num(0), Num(-1), Tenths(15), Num(250), NaN}

\* calls of the three tools that take a limit
LimitRequests ==
    {ToolRequest("search_notes", [SearchArgs("", "", "") EXCEPT !.limit = l]) : l \in CallLimits}
    \cup {ToolRequest("get_recent_notes", [limit |-> l]) : l \in CallLimits}
    \cup {ToolRequest("structure_search_notes",
                      NoRecency([BaseArgs("2026 2025") EXCEPT !.limit = l])) : l \in CallLimits}

\* entries whose ages stand on and beside the steps of the recency bonus at
\* the times of the model, one with a timestamp that is no date and one of
\* a day to come
RecencyBlocks ==
    {"## 2026-01-29 12:00\nnote a\n",
     "## 2026-01-29 11:59\nnote b\n",
     "## 2026-01-09 12:00\nnote c\n",
     "## 2025-11-07 12:00\nnote d\n",
     "## 2025-08-12 12:00\nnote e\n",
     "## 2025-08-09 11:59\nnote f\n",
     "## 2026-13-45\nnote g\n",
     "## 2026-03-01\nnote h\n"}

RecencyRequests == {BaseArgs("note"), NoRecency(BaseArgs("note")), BaseArgs("zzz")}

\* calls without the recency bonus, with and without weight overrides
SignalRequests ==
    {NoRecency([BaseArgs(q) EXCEPT !.weights = w]) :
         q \in {"#todo 2026-02 milk", "zzz", "keihi", "tod 2025-6", "#heading"},
         w \in {<<>>} \cup {<<o>> : o \in WeightOverrides}}

\* the invocations of notes.quickAdd that may be under way together
QuickAddCommands == {1, 2}

\* a command that has not been invoked
NotInvoked ==
    [pc |-> "idle", seen |-> [exists |-> FALSE, text |-> ""], newEntry |-> ""]

StartTime == minutesOf(2026, 2, 5, 12, 0)
TickMinutes == 3 * 1440

(***************************************************************************)
(* The state machine.                                                      *)
(***************************************************************************)
Init ==
    /\ log = [exists |-> FALSE, text |-> ""]
    /\ now = StartTime
    /\ req = NoCall
    /\ call = NoCall
    /\ callAt = StartTime
    /\ first = NoCall
    /\ firstAt = StartTime
    /\ quickAdds = [i \in QuickAddCommands |-> NotInvoked]

\* notes.openMemory: the file is created when missing and opened in the
\* editor, where the user appends an entry block not yet in the file and
\* saves.  What was computed from the old text is no longer held.
OpenMemoryEdit(block) ==
    LET file == ensureMemoryFile(log)
        edited == [file EXCEPT !.text = @ \o block]
    IN /\ ~includes(file.text, block)
       /\ Len(parseMemoryFile(edited)) <= MaxEntries
       /\ log' = edited
       /\ call' = NoCall
       /\ callAt' = now
       /\ first' = NoCall
       /\ firstAt' = now
       /\ UNCHANGED <<quickAdds, now, req>>

\* a tools/call request for structure_search_notes arrives on the transport
RequestArrives(args) ==
    /\ req = NoCall
    /\ req' = args
    /\ call' = NoCall
    /\ callAt' = now
    /\ first' = NoCall
    /\ firstAt' = now
    /\ UNCHANGED <<quickAdds, log, now>>

\* the CallToolRequestSchema handler runs on the waiting request
CallToolRequest ==
    /\ req # NoCall
    /\ call' = structure_search_notes(log, req)
    /\ callAt' = now
    /\ req' = NoCall
    /\ first' = IF first = NoCall THEN call'.result ELSE first
    /\ firstAt' = IF first = NoCall THEN now ELSE firstAt
    /\ UNCHANGED <<quickAdds, log, now>>

\* time passes; the response has been delivered
Tick ==
    /\ now < StartTime + MaxTicks * TickMinutes
    /\ now' = now + TickMinutes
    /\ call' = NoCall
    /\ callAt' = now'
    /\ first' = NoCall
    /\ firstAt' = now'
    /\ UNCHANGED <<quickAdds, log, req>>

Next ==
    \/ \E block \in EntryBlocks : OpenMemoryEdit(block)
    \/ \E args \in Requests : RequestArrives(args)
    \/ CallToolRequest
    \/ Tick

Spec == Init /\ [][Next]_vars

(***************************************************************************)
(* The same call sent twice: the caller keeps the first response while     *)
(* time passes and sends the same arguments again.                         *)
(***************************************************************************)
TickKeep ==
    /\ now < StartTime + MaxTicks * TickMinutes
    /\ now' = now + TickMinutes
    /\ UNCHANGED <<quickAdds, log, req, call, callAt, first, firstAt>>

RequestAgain ==
    /\ req = NoCall
    /\ call # NoCall
    /\ req' = call.args
    /\ UNCHANGED <<quickAdds, log, now, call, callAt, first, firstAt>>

NextRepeat ==
    \/ \E block \in EntryBlocks : OpenMemoryEdit(block)
    \/ \E args \in RepeatRequests : RequestArrives(args)
    \/ CallToolRequest
    \/ TickKeep
    \/ RequestAgain

SpecRepeat == Init /\ [][NextRepeat]_vars

(***************************************************************************)
(* The weight resolver on its own: calls that differ in their weights.     *)
(***************************************************************************)
NextWeights ==
    \/ \E args \in WeightRequests : RequestArrives(args)
    \/ CallToolRequest

SpecWeights == Init /\ [][NextWeights]_vars

(***************************************************************************)
(* The synonym expander on its own: calls that differ in their synonyms.   *)
(***************************************************************************)
NextSynonyms ==
    \/ \E args \in SynonymRequests : RequestArrives(args)
    \/ CallToolRequest

SpecSynonyms == Init /\ [][NextSynonyms]_vars

(***************************************************************************)
(* The read operations on logs a user has edited by hand.                  *)
(***************************************************************************)
\* the CallToolRequestSchema handler runs on the waiting request, whatever
\* its tool
CallTool ==
    /\ req # NoCall
    /\ call' = callTool(log, req)
    /\ callAt' = now
    /\ req' = NoCall
    /\ UNCHANGED <<quickAdds, log, now, first, firstAt>>

\* notes.showReminders: the editor lists the reminders of the log
ShowReminders ==
    /\ req = NoCall
    /\ call' = [name |-> "extractReminders", args |-> <<>>, entries |-> <<>>,
                result |-> extractReminders(log)]
    /\ callAt' = now
    /\ UNCHANGED <<quickAdds, log, now, req, first, firstAt>>

NextParser ==
    \/ \E block \in ParserBlocks : OpenMemoryEdit(block)
    \/ \E request \in ToolRequests : RequestArrives(request)
    \/ CallTool
    \/ ShowReminders
    \/ Tick

SpecParser == Init /\ [][NextParser]_vars

(***************************************************************************)
(* Quick Add and the most recent entries.                                  *)
(***************************************************************************)
\* notes.quickAdd with a non-empty input; the file holds the title and, of
\* four lines each, at most MaxEntries blocks
QuickAdd(input, position, dateFormat) ==
    LET text == quickAdd(log, input, position, dateFormat)
    IN /\ req = NoCall
       /\ Len(splitChar(text, "\n")) <= Len(splitChar(MEMORY_HEADER, "\n")) + 4 * MaxEntries
       /\ log' = [exists |-> TRUE, text |-> text]
       /\ call' = NoCall
       /\ callAt' = now
       /\ first' = NoCall
       /\ firstAt' = now
       /\ UNCHANGED <<quickAdds, now, req>>

NextQuickAdd ==
    \/ \E input \in QuickInputs, position \in EntryPositions, dateFormat \in DateFormats :
           QuickAdd(input, position, dateFormat)
    \/ \E request \in RecentRequests : RequestArrives(request)
    \/ CallTool
    \/ Tick

SpecQuickAdd == Init /\ [][NextQuickAdd]_vars

(***************************************************************************)
(* Quick Add commands under way together in one extension host.  A command *)
(* is suspended at its two awaits only; what follows the input box runs    *)
(* to the end without yielding.                                            *)
(***************************************************************************)
\* the entry notes.quickAdd builds from the input
newEntry(input, dateFormat) ==
    LET tags == join(matchWordTags(input, 1), " ")
        content == trim(removeWordTags(input, 1))
        tagSection == IF tags # "" THEN " " \o tags ELSE ""
    IN "\n## " \o formatDateTime(now, dateFormat) \o tagSection \o "\n" \o content \o "\n\n"

\* a handler that keeps the file it saw when its input box opened
readFileSync_BeforeInput(i) == quickAdds[i].seen

\* fs.readFileSync(memoryPath) of command i: the file as it is in the step
\* that writes it
readFileSync(i) == log

\* the command is invoked and awaits ensureNotesDirectory()
InvokeQuickAdd(i) ==
    /\ quickAdds[i].pc = "idle"
    /\ quickAdds' = [quickAdds EXCEPT ![i].pc = "ensureNotesDirectory"]
    /\ UNCHANGED <<log, now, req, call, callAt, first, firstAt>>

\* the directory is known: the command opens the input box and awaits it
DirectoryKnown(i) ==
    /\ quickAdds[i].pc = "ensureNotesDirectory"
    /\ quickAdds' = [quickAdds EXCEPT ![i].pc = "showInputBox", ![i].seen = log]
    /\ UNCHANGED <<log, now, req, call, callAt, first, firstAt>>

\* no directory is configured and none is selected: the command returns
DirectoryUnknown(i) ==
    /\ quickAdds[i].pc = "ensureNotesDirectory"
    /\ quickAdds' = [quickAdds EXCEPT ![i].pc = "returned"]
    /\ UNCHANGED <<log, now, req, call, callAt, first, firstAt>>

\* the input box is dismissed or left empty: the command returns
InputDismissed(i) ==
    /\ quickAdds[i].pc = "showInputBox"
    /\ quickAdds' = [quickAdds EXCEPT ![i].pc = "returned"]
    /\ UNCHANGED <<log, now, req, call, callAt, first, firstAt>>

\* the input box returns a text: the command reads the file, puts the entry
\* in and writes the file, in one step
InputAccepted(i, input, position, dateFormat) ==
    /\ quickAdds[i].pc = "showInputBox"
    /\ log' = [exists |-> TRUE,
               text |-> quickAdd(readFileSync(i), input, position, dateFormat)]
    /\ quickAdds' = [quickAdds EXCEPT ![i].pc = "done",
                                      ![i].newEntry = newEntry(input, dateFormat)]
    /\ call' = NoCall
    /\ callAt' = now
    /\ first' = NoCall
    /\ firstAt' = now
    /\ UNCHANGED <<now, req>>

NextInterleaved ==
    \/ \E i \in QuickAddCommands : InvokeQuickAdd(i)
    \/ \E i \in QuickAddCommands : DirectoryKnown(i)
    \/ \E i \in QuickAddCommands : DirectoryUnknown(i)
    \/ \E i \in QuickAddCommands : InputDismissed(i)
    \/ \E i \in QuickAddCommands, input \in QuickInputs,
          position \in EntryPositions, dateFormat \in DateFormats :
           InputAccepted(i, input, position, dateFormat)
    \/ Tick

SpecInterleaved == Init /\ [][NextInterleaved]_vars

(***************************************************************************)
(* The limit of a call.                                                    *)
(***************************************************************************)
NextLimits ==
    \/ \E block \in EntryBlocks : OpenMemoryEdit(block)
    \/ \E request \in LimitRequests : RequestArrives(request)
    \/ CallTool
    \/ Tick

SpecLimits == Init /\ [][NextLimits]_vars

(***************************************************************************)
(* The recency bonus at the steps of its bands.                            *)
(***************************************************************************)
NextRecency ==
    \/ \E block \in RecencyBlocks : OpenMemoryEdit(block)
    \/ \E args \in RecencyRequests : RequestArrives(args)
    \/ CallToolRequest
    \/ Tick

SpecRecency == Init /\ [][NextRecency]_vars

(***************************************************************************)
(* The editor's structure search.                                          *)
(***************************************************************************)
\* notes.structureSearch: the command returns early on a log without
\* entries, on an empty input and on a query without tokens
ShowStructureSearch(query) ==
    /\ req = NoCall
    /\ Len(extension_parseMemoryFile(log)) # 0
    /\ query # ""
    /\ Len(extension_tokenizeQuery(query)) # 0
    /\ call' = showStructureSearch(log, query)
    /\ callAt' = now
    /\ UNCHANGED <<quickAdds, log, now, req, first, firstAt>>

NextEditor ==
    \/ \E block \in EntryBlocks : OpenMemoryEdit(block)
    \/ \E query \in Queries : ShowStructureSearch(query)
    \/ Tick

SpecEditor == Init /\ [][NextEditor]_vars

(***************************************************************************)
(* Searches without the recency bonus.                                     *)
(***************************************************************************)
NextSignals ==
    \/ \E block \in EntryBlocks : OpenMemoryEdit(block)
    \/ \E args \in SignalRequests : RequestArrives(args)
    \/ CallToolRequest

SpecSignals == Init /\ [][NextSignals]_vars

(***************************************************************************)
(* Properties of the ranker, the weight resolver and the scorer.           *)
(***************************************************************************)
\* a call has been handled, and it was not rejected
Done == call # NoCall
Ok == Done /\ call.effectiveWeights # <<>>

\* the order of the UTF-16 code units a timestamp is made of
CodeUnitOrder == " -0123456789:"

\* a < b in lexicographic order of code units
RECURSIVE LexLess(_, _)
LexLess(a, b) ==
    IF b = "" THEN FALSE
    ELSE IF a = "" THEN TRUE
    ELSE LET ra == IndexIn(CodeUnitOrder, Head(a))
             rb == IndexIn(CodeUnitOrder, Head(b))
         IN ra < rb \/ (ra = rb /\ LexLess(Tail(a), Tail(b)))

\* x comes before y, or ties with it, in the order the ranker promises
RankedBefore(x, y) ==
    \/ x.score > y.score
    \/ x.score = y.score /\ ~LexLess(x.entry.dateTime, y.entry.dateTime)

\* where in the log the entry stands
PositionInLog(entry) == CHOOSE k \in 1..Len(call.scored) : call.scored[k].entry = entry

\* C1: the results of every structure_search_notes call are in descending
\* order of score, and of two results with the same score the one with the
\* lexicographically greater timestamp string comes first.
C1_Ordered ==
    Ok => LET results == call.result.results
          IN \A i, j \in 1..Len(results) :
                 i < j => /\ RankedBefore(results[i], results[j])
                          /\ results[i].score >= results[j].score

\* two results tie on score, the later timestamp is first although its
\* entry stands later in the log, and a result of lower score follows
C1_TieBroken ==
    /\ Ok
    /\ LET results == call.result.results
       IN \E i, j, k \in 1..Len(results) :
              /\ i < j /\ j < k
              /\ results[i].score = results[j].score
              /\ LexLess(results[j].entry.dateTime, results[i].entry.dateTime)
              /\ PositionInLog(results[i].entry) > PositionInLog(results[j].entry)
              /\ results[k].score < results[j].score

\* the limit of the call in tenths, clamped into [1, 200], 10 when it is
\* absent or not finite
LimitTenths ==
    LET limit == limitOf(call.args)
    IN IF limit.t = "number" THEN Max(10, Min(limit.tenths, 2000)) ELSE 100

\* the scored entries of positive score, in log order
Positive == SelectSeq(call.scored, LAMBDA s : s.score > 0)

\* C2: every result has a score above zero, there are no more results
\* than the requested limit clamped into [1, 200] (10 when it is absent or
\* not finite), and the results are the first entries of the sorted list of
\* the entries of positive score: each is one of them, none is left out
\* while the limit has room, and none left out ranks before a result.
C2_PositiveBounded ==
    Ok => LET results == call.result.results
          IN /\ \A i \in 1..Len(results) :
                    /\ results[i].score > 0
                    /\ \E k \in 1..Len(Positive) : Positive[k] = results[i]
             /\ 10 * Len(results) <= LimitTenths
             /\ Len(results) <= Len(Positive)
             /\ Len(results) < Len(Positive) => 10 * (Len(results) + 1) > LimitTenths
             /\ call.result.totalMatches = Len(results)
             /\ \A k \in 1..Len(Positive) :
                    (\A i \in 1..Len(results) : results[i] # Positive[k])
                        => \A i \in 1..Len(results) : RankedBefore(results[i], Positive[k])

\* the limit cut the list short, and an entry of score zero was dropped
C2_Truncated ==
    /\ Ok
    /\ Len(call.result.results) >= 1
    /\ Len(call.result.results) < Len(Positive)
    /\ \E k \in 1..Len(call.scored) : call.scored[k].score = 0

\* the query holds nothing but white space
IsBlank(query) == \A i \in 1..Len(query) : CharAt(query, i) \in {" ", "\t", "\n"}

\* the tag a token names
TagOf(token) == IF startsWith(token, "#") THEN token ELSE "#" \o token

HasTag(entry, tag) == \E i \in 1..Len(entry.tags) : normalize(entry.tags[i]) = tag

\* the token is found in the timestamp, the month, the tags or the content
FiresInexact(entry, token) ==
    LET texts == entryTexts(entry)
    IN \/ includes(texts.dateText, token)
       \/ includes(texts.monthText, token)
       \/ includes(texts.tagText, token)
       \/ includes(texts.contentText, token)

\* at least one of the five signals fires for the token on the entry
Fires(entry, token) == HasTag(entry, TagOf(token)) \/ FiresInexact(entry, token)

\* C3: a query that is empty or only white space yields the error result
\* "query is empty" and no entry is scored; any other query yields a normal
\* result object, whose results list is empty when nothing in the log
\* matches any of its tokens.
C3_EmptyOrNoMatch ==
    Done => IF IsBlank(call.args.query)
            THEN /\ call.result = [error |-> "query is empty"]
                 /\ call.scored = <<>>
            ELSE /\ Ok
                 /\ (\A k \in 1..Len(call.scored) :
                         \A i \in 1..Len(call.result.expandedTokens) :
                             ~Fires(call.scored[k].entry, call.result.expandedTokens[i]))
                        => call.result.results = <<>>

\* the declared range of a weight field
RangeOf(field) ==
    IF field \in {"multiTokenBonus", "allTokensBonus"}
    THEN [lo |-> 0, hi |-> 20] ELSE [lo |-> 1, hi |-> 20]

FieldNames == {WeightFields[i] : i \in 1..Len(WeightFields)}

\* what the call gives for a weight field
Given(field) ==
    IF call.args.weights = <<>> THEN Undefined ELSE call.args.weights[1][field]

Resolved(field) == call.effectiveWeights[1][field]

\* C4 as stated: every override value outside the field's declared range,
\* the two infinities among them, resolves to the nearest bound of the range.
C4_OutsideToNearestBound ==
    Ok => \A f \in FieldNames :
              /\ (Given(f).t = "-Infinity"
                  \/ (Given(f).t = "number" /\ Given(f).tenths < 10 * RangeOf(f).lo))
                     => Resolved(f) = RangeOf(f).lo
              /\ (Given(f).t = "Infinity"
                  \/ (Given(f).t = "number" /\ Given(f).tenths > 10 * RangeOf(f).hi))
                     => Resolved(f) = RangeOf(f).hi

\* C4: for every weight field, every finite override value outside the
\* field's declared range resolves to the nearest bound of that range, and
\* an infinite one resolves to the field's default.
C4_FiniteToNearestBound ==
    Ok => \A f \in FieldNames :
              /\ (Given(f).t = "number" /\ Given(f).tenths < 10 * RangeOf(f).lo)
                     => Resolved(f) = RangeOf(f).lo
              /\ (Given(f).t = "number" /\ Given(f).tenths > 10 * RangeOf(f).hi)
                     => Resolved(f) = RangeOf(f).hi
              /\ Given(f).t \in {"Infinity", "-Infinity"}
                     => Resolved(f) = DEFAULT_WEIGHTS[f]

\* one call gives a finite value above every range, another a value
\* below the range of a field
C4_Clamped ==
    /\ Ok
    /\ \E f \in FieldNames :
           /\ Given(f).t = "number"
           /\ \/ Given(f).tenths > 10 * RangeOf(f).hi /\ Resolved(f) = RangeOf(f).hi
              \/ Given(f).tenths < 0 /\ Resolved(f) = RangeOf(f).lo

\* the defaults the weights are documented to have
DocumentedDefaults ==
    [tagExact |-> 6, dateMatch |-> 4, monthMatch |-> 3, tagPartial |-> 3,
     contentMatch |-> 2, multiTokenBonus |-> 3, allTokensBonus |-> 4]

\* C5: for every weight field a missing or non-finite override resolves to
\* the field's default (6, 4, 3, 3, 2, 3, 4), never to zero, and whatever
\* the overrides every resolved weight is an integer inside its range.
C5_DefaultOrInRange ==
    Ok => \A f \in FieldNames :
              /\ Given(f).t # "number" => /\ Resolved(f) = DocumentedDefaults[f]
                                          /\ Resolved(f) # 0
              /\ Resolved(f) \in RangeOf(f).lo .. RangeOf(f).hi

\* a call gives a non-finite value for one field and nothing for another
C5_FellBack ==
    /\ Ok
    /\ \E f, g \in FieldNames :
           /\ Given(f).t \in {"NaN", "Infinity", "-Infinity"}
           /\ call.args.weights # <<>> /\ Given(g).t = "undefined"
           /\ Resolved(f) = DocumentedDefaults[f]

\* the reasons of a scored entry as the scorer recorded them
Recorded(s) ==
    scoreAccumulated(s.entry, call.result.expandedTokens, call.effectiveWeights[1],
                     recencyOf(call.args)).reasons

FirstIndex(seq, x) ==
    CHOOSE i \in 1..Len(seq) : seq[i] = x /\ \A j \in 1..(i - 1) : seq[j] # x

\* C6: the reasons scoreEntry returns hold no string twice, hold exactly
\* the strings that were recorded, and hold them in the order in which
\* each was first recorded.
C6_ReasonsDeduplicated ==
    Ok => \A k \in 1..Len(call.scored) :
              LET reasons == call.scored[k].reasons
                  recorded == Recorded(call.scored[k])
              IN /\ \A i, j \in 1..Len(reasons) : i # j => reasons[i] # reasons[j]
                 /\ {reasons[i] : i \in 1..Len(reasons)}
                        = {recorded[i] : i \in 1..Len(recorded)}
                 /\ \A i, j \in 1..Len(reasons) :
                        i < j => FirstIndex(recorded, reasons[i])
                                     < FirstIndex(recorded, reasons[j])

\* a reason was recorded twice and is returned once, with others after it
C6_DuplicateDropped ==
    /\ Ok
    /\ \E k \in 1..Len(call.scored) :
           /\ Len(Recorded(call.scored[k])) > Len(call.scored[k].reasons)
           /\ Len(call.scored[k].reasons) >= 2

\* C7 as stated: the same call on the same log text yields the same
\* output as the first time.
C7_SameOutput == (Done /\ first # NoCall) => call.result = first

\* C7: the same call on the same log text yields the same output as the
\* first time when it is handled at the same clock reading or with the
\* recency bonus switched off: the output is a function of the log text,
\* the query, the configuration and, through the recency bonus, the clock.
C7_SameOutputSameClock ==
    (Done /\ first # NoCall /\ (callAt = firstAt \/ ~recencyOf(call.args)))
        => call.result = first

\* the call was handled a second time, later, without the recency bonus,
\* and ranked something
C7_RepeatedLater ==
    /\ Ok
    /\ first # NoCall
    /\ callAt # firstAt
    /\ ~recencyOf(call.args)
    /\ call.result.results # <<>>
    /\ call.result = first

\* the entry with one more tag
WithTag(entry, tag) == [entry EXCEPT !.tags = Append(@, tag)]

\* the entry scored as the call scored the log's entries
Rescore(entry) ==
    scoreEntry(entry, call.result.expandedTokens, call.effectiveWeights[1],
               recencyOf(call.args))

\* the tokens of the call
Tokens == {call.result.expandedTokens[i] : i \in 1..Len(call.result.expandedTokens)}

\* C8 as stated: giving an entry a tag that exactly matches a token
\* strictly increases its score.
C8_TagRaisesScore ==
    Ok => \A k \in 1..Len(call.scored) : \A token \in Tokens :
              ~HasTag(call.scored[k].entry, TagOf(token))
                  => Rescore(WithTag(call.scored[k].entry, TagOf(token))).score
                         > call.scored[k].score

\* the tokens that name the tag fire nothing on the entry
Unmatched(entry, tag) ==
    \A token \in Tokens : TagOf(token) = tag => ~Fires(entry, token)

\* C8: giving an entry a tag that exactly matches a token, when no token
\* naming that tag fired a signal on the entry before, strictly increases
\* its score, and puts it ahead of every entry without the tag that it was
\* not behind.
C8_TagRaisesUnmatched ==
    Ok => \A k \in 1..Len(call.scored) : \A token \in Tokens :
              LET s == call.scored[k]
                  tagged == Rescore(WithTag(s.entry, TagOf(token)))
              IN Unmatched(s.entry, TagOf(token))
                     => /\ tagged.score > s.score
                        /\ \A o \in 1..Len(call.scored) :
                               (o # k /\ ~HasTag(call.scored[o].entry, TagOf(token))
                                      /\ compareRanked(s, call.scored[o]) <= 0)
                                   => compareRanked(tagged, call.scored[o]) < 0

\* an entry that no token naming the tag matched gains the tag's weight
\* and overtakes an entry it tied with or followed
C8_TagAdded ==
    /\ Ok
    /\ \E k, o \in 1..Len(call.scored) : \E token \in Tokens :
           LET s == call.scored[k]
               tagged == Rescore(WithTag(s.entry, TagOf(token)))
           IN /\ o # k
              /\ Unmatched(s.entry, TagOf(token))
              /\ ~HasTag(call.scored[o].entry, TagOf(token))
              /\ compareRanked(s, call.scored[o]) >= 0
              /\ tagged.score = s.score + call.effectiveWeights[1].tagExact
              /\ compareRanked(tagged, call.scored[o]) < 0

HasReason(s, reason) == \E i \in 1..Len(s.reasons) : s.reasons[i] = reason

\* the score the entry has before the all-tokens step
BeforeAllTokens(s) ==
    LET weights == call.effectiveWeights[1]
        tokens == call.result.expandedTokens
    IN recencyStep(
           multiTokenStep(
               scoreTokens([score |-> 0, matchedTokenCount |-> 0, reasons |-> <<>>],
                           entryTexts(s.entry), tokens, weights),
               weights),
           s.entry, recencyOf(call.args)).score

\* C9 as stated, for the entries on which no token matches a tag exactly:
\* the all-tokens reason is recorded if and only if every token of the
\* tokenized query, before synonym expansion, fired a signal.
C9_OriginalTokens ==
    Ok => \A k \in 1..Len(call.scored) :
              (\A token \in Tokens : ~HasTag(call.scored[k].entry, TagOf(token)))
                  => (HasReason(call.scored[k], "bonus:all-tokens")
                          <=> \A i \in 1..Len(call.result.queryTokens) :
                                  Fires(call.scored[k].entry, call.result.queryTokens[i]))

\* C9: scoreEntry adds allTokensBonus and records the all-tokens reason if
\* and only if its matchedTokenCount equals the number of tokens it was
\* given, which are the tokens after synonym expansion.
C9_ExpandedTokens ==
    Ok => \A k \in 1..Len(call.scored) :
              LET s == call.scored[k]
                  granted == s.matchedTokenCount = Len(call.result.expandedTokens)
              IN /\ HasReason(s, "bonus:all-tokens") <=> granted
                 /\ s.score = BeforeAllTokens(s)
                        + (IF granted THEN call.effectiveWeights[1].allTokensBonus ELSE 0)

\* synonyms were added to the query: one entry matches them all and has
\* the bonus, another has not
C9_BonusAfterExpansion ==
    /\ Ok
    /\ Len(call.result.expandedTokens) > Len(call.result.queryTokens)
    /\ \E k, o \in 1..Len(call.scored) :
           /\ HasReason(call.scored[k], "bonus:all-tokens")
           /\ call.scored[k].matchedTokenCount >= 2
           /\ ~HasReason(call.scored[o], "bonus:all-tokens")

\* C10: matchedTokenCount is the number of scored tokens for which at
\* least one signal fired, a tag-exact match being one, and the multi-token
\* reason is recorded whenever two or more tokens fired a signal.
C10_CountsEverySignal ==
    Ok => \A k \in 1..Len(call.scored) :
              LET s == call.scored[k]
                  tokens == call.result.expandedTokens
                  fired == {i \in 1..Len(tokens) : Fires(s.entry, tokens[i])}
              IN /\ s.matchedTokenCount = Cardinality(fired)
                 /\ Cardinality(fired) >= 2 => HasReason(s, "bonus:multi-token")

\* the recency bonus the call gives the entry
RecencyOf(entry) ==
    IF recencyOf(call.args) THEN getRecencyBonus(entry.dateTime) ELSE 0

\* the reasons a recency bonus leaves
RecencyReason(entry) ==
    IF RecencyOf(entry) > 0
    THEN <<"bonus:recent+" \o digitString(RecencyOf(entry))>> ELSE <<>>

\* the reasons the four inexact signals would record for the token
InexactReasons(token) ==
    {"date:" \o token, "month:" \o token, "tag-partial:" \o token, "content:" \o token}

\* the query has one token and the entry carries the tag it names
SingleTagQuery(s) ==
    /\ Len(call.result.queryTokens) = 1
    /\ HasTag(s.entry, TagOf(call.result.queryTokens[1]))

\* C11 as stated: for a query whose single token equals a tag of the entry,
\* the token's only reason is the tag-exact marker and the entry's score is
\* tagExact plus the recency bonus for its date.
C11_SingleTagScore ==
    Ok => \A k \in 1..Len(call.scored) :
              LET s == call.scored[k]
                  token == call.result.queryTokens[1]
              IN SingleTagQuery(s)
                     => /\ HasReason(s, "tag:" \o TagOf(token))
                        /\ \A r \in InexactReasons(token) : ~HasReason(s, r)
                        /\ s.score = call.effectiveWeights[1].tagExact + RecencyOf(s.entry)

\* C11: for a query whose single token equals a tag of the entry, the
\* token's only reason is the tag-exact marker, whatever else it is found
\* in; and when no synonym added to the query fires a signal on the entry,
\* the reasons are that marker and the recency reason, and the score is
\* tagExact plus the recency bonus for the entry's date.
C11_SingleTagNoSynonymFires ==
    Ok => \A k \in 1..Len(call.scored) :
              LET s == call.scored[k]
                  token == call.result.queryTokens[1]
              IN SingleTagQuery(s)
                     => /\ HasReason(s, "tag:" \o TagOf(token))
                        /\ \A r \in InexactReasons(token) : ~HasReason(s, r)
                        /\ (\A other \in Tokens \ {token} : ~Fires(s.entry, other))
                               => /\ s.reasons = <<"tag:" \o TagOf(token)>>
                                                     \o RecencyReason(s.entry)
                                  /\ s.score = call.effectiveWeights[1].tagExact
                                                   + RecencyOf(s.entry)

\* the single token names a tag of a recent entry and is also found in
\* the entry's tags as a substring; the score is the tag weight and the bonus
C11_TagOnly ==
    /\ Ok
    /\ \E k \in 1..Len(call.scored) :
           LET s == call.scored[k]
           IN /\ SingleTagQuery(s)
              /\ FiresInexact(s.entry, call.result.queryTokens[1])
              /\ RecencyOf(s.entry) > 0
              /\ s.score = call.effectiveWeights[1].tagExact + RecencyOf(s.entry)

\* C12: an entry on which no token of the expanded query fires any signal
\* is never among the results, with or without the recency bonus; for the
\* log of two entries, one tagged #todo, the query "#todo" has that entry
\* as its only result.
C12_UnmatchedNotReturned ==
    Ok => /\ \A i \in 1..Len(call.result.results) :
                 \E token \in Tokens : Fires(call.result.results[i].entry, token)
          /\ (/\ log.text = MEMORY_HEADER \o "## 2026-02-01 #todo\nBuy milk\n\n"
                               \o "## 2026-01-15 #meeting\nDiscuss roadmap\n"
              /\ call.args.query = "#todo")
                 => /\ Len(call.result.results) = 1
                    /\ call.result.results[1].entry.dateTime = "2026-02-01"

\* what one token adds to the score of the entry
Contribution(entry, token) ==
    scoreTokens([score |-> 0, matchedTokenCount |-> 0, reasons |-> <<>>],
                entryTexts(entry), <<token>>, call.effectiveWeights[1]).score

\* the token is found in the first seven characters of the timestamp and
\* names no tag of the entry
MonthToken(entry, token) ==
    /\ ~HasTag(entry, TagOf(token))
    /\ includes(SubSeq(entry.dateTime, 1, Min(7, Len(entry.dateTime))), token)

\* C13: a token that is not a tag-exact match and is found in the first
\* seven characters of the timestamp fires the date match as well as the
\* month match, and adds at least dateMatch + monthMatch to the score.
C13_MonthImpliesDate ==
    Ok => \A k \in 1..Len(call.scored) : \A token \in Tokens :
              LET s == call.scored[k]
                  weights == call.effectiveWeights[1]
              IN MonthToken(s.entry, token)
                     => /\ HasReason(s, "date:" \o token)
                        /\ HasReason(s, "month:" \o token)
                        /\ Contribution(s.entry, token)
                               >= weights.dateMatch + weights.monthMatch
                        /\ s.score >= weights.dateMatch + weights.monthMatch
                        /\ weights = DocumentedDefaults => s.score >= 7

\* a token is found in the month of one entry and in no part of the
\* timestamp of another
C13_MonthMatched ==
    /\ Ok
    /\ \E k, o \in 1..Len(call.scored) : \E token \in Tokens :
           /\ MonthToken(call.scored[k].entry, token)
           /\ Contribution(call.scored[k].entry, token) >= 7
           /\ ~HasReason(call.scored[o], "date:" \o token)

\* what the documentation registers under each built-in key
BuiltInMeaning(key) ==
    CASE key = "keihi" -> {"seisan", "kotsuhi", "shutchohi"}
      [] key = "kaigi" -> {"mtg", "miitingu"}
      [] key = "tasuku" -> {"todo", "kadai"}
      [] OTHER -> {}

\* what each row of SynonymRows says: its key and values, or nothing
RowMeaning(row) ==
    CASE row = "keihi:seisan" -> <<[key |-> "keihi", values |-> {"seisan"}]>>
      [] row = "KEIHI : Taxi , seisan,," -> <<[key |-> "keihi", values |-> {"taxi", "seisan"}]>>
      [] row = "keihi:kaigi" -> <<[key |-> "keihi", values |-> {"kaigi"}]>>
      [] row = "seisan:keihi" -> <<[key |-> "seisan", values |-> {"keihi"}]>>
      [] row = "Milk:Buy,MILK" -> <<[key |-> "milk", values |-> {"buy", "milk"}]>>
      [] OTHER -> <<>>

\* the rows of the call
RowsGiven == IF call.args.synonyms = <<>> THEN <<>> ELSE call.args.synonyms[1]

\* the synonyms registered directly under the key, built in or by a row
RegisteredUnder(key) ==
    BuiltInMeaning(key)
        \cup UNION {RowMeaning(RowsGiven[i])[1].values :
                        i \in {j \in 1..Len(RowsGiven) :
                                   /\ RowMeaning(RowsGiven[j]) # <<>>
                                   /\ RowMeaning(RowsGiven[j])[1].key = key}}

Bare(token) == IF startsWith(token, "#") THEN SubSeq(token, 2, Len(token)) ELSE token

ElementsOf(seq) == {seq[i] : i \in 1..Len(seq)}

NoDuplicates(seq) == \A i, j \in 1..Len(seq) : i # j => seq[i] # seq[j]

\* C14: expandTokens returns, without duplicates, exactly the original
\* tokens plus the synonyms registered directly under each token's bare
\* form, the original tokens first and all kept; synonyms of a synonym
\* and the key of a token that is only a value are not added.
C14_SingleHopOneWay ==
    Ok => LET tokens == call.result.queryTokens
              expanded == call.result.expandedTokens
          IN /\ NoDuplicates(expanded)
             /\ Len(expanded) >= Len(tokens)
             /\ SubSeq(expanded, 1, Len(tokens)) = tokens
             /\ ElementsOf(expanded)
                    = ElementsOf(tokens)
                          \cup UNION {RegisteredUnder(Bare(tokens[i])) : i \in 1..Len(tokens)}

\* the keys a call's rows and the built-in table register
KeysRegistered ==
    {"keihi", "kaigi", "tasuku"}
        \cup {RowMeaning(RowsGiven[i])[1].key :
                  i \in {j \in 1..Len(RowsGiven) : RowMeaning(RowsGiven[j]) # <<>>}}

\* a synonym that was added is itself a key, and its own synonyms were
\* not added; a token is a value of a key, and that key was not added
C14_HopNotFollowed ==
    /\ Ok
    /\ \E x \in ElementsOf(call.result.expandedTokens) :
           /\ x \notin ElementsOf(call.result.queryTokens)
           /\ RegisteredUnder(x) # {}
           /\ RegisteredUnder(x) \cap ElementsOf(call.result.expandedTokens) = {}
    /\ \E token \in ElementsOf(call.result.queryTokens) : \E key \in KeysRegistered :
           /\ token \in RegisteredUnder(key)
           /\ key \notin ElementsOf(call.result.expandedTokens)

IsLowerCase(text) == \A i \in 1..Len(text) : CharAt(text, i) \notin UpperSet

\* C15: the map getSynonymMap builds has, under every key built in or
\* named by a well-formed row, the union of the built-in and the custom
\* values, each once and in lower case, and has no other key; a row
\* without a key or without a value list changes nothing.
C15_MergedAndSkipped ==
    Ok => LET map == getSynonymMap(call.args.synonyms)
              wellFormed == SelectSeq(RowsGiven, LAMBDA row : RowMeaning(row) # <<>>)
          IN /\ {map[i].key : i \in 1..Len(map)} = KeysRegistered
             /\ \A i, j \in 1..Len(map) : i # j => map[i].key # map[j].key
             /\ \A i \in 1..Len(map) :
                    /\ ElementsOf(map[i].values) = RegisteredUnder(map[i].key)
                    /\ NoDuplicates(map[i].values)
                    /\ IsLowerCase(map[i].key)
                    /\ \A v \in ElementsOf(map[i].values) : IsLowerCase(v)
             /\ map = getSynonymMap(<<wellFormed>>)
             /\ wellFormed = <<>> => map = getSynonymMap(<<>>)

\* a row in upper case adds a value to a built-in key and repeats one
\* that is built in, and the call holds a malformed row as well
C15_MergedIntoBuiltIn ==
    /\ Ok
    /\ \E i, j \in 1..Len(RowsGiven) :
           /\ RowsGiven[i] = "KEIHI : Taxi , seisan,,"
           /\ RowMeaning(RowsGiven[j]) = <<>>
    /\ mapGet(getSynonymMap(call.args.synonyms), "keihi")
           = <<"seisan", "kotsuhi", "shutchohi", "taxi">>

(***************************************************************************)
(* Properties of the parser and of the read operations.                    *)
(***************************************************************************)
\* a tool of the handler has been called
Called == call # NoCall /\ call.name # "extractReminders"

\* the lines of the log
LogLines == IF log.exists THEN splitChar(log.text, "\n") ELSE <<>>

\* the lines of ParserBlocks that are entry headers, and their timestamps
HeaderMeaning(line) ==
    CASE line = "## 2026-02-01 #todo" -> <<"2026-02-01">>
      [] line = "## 2026-02-04 10:30 #work-log #Todo @2026-02-06" -> <<"2026-02-04 10:30">>
      [] line = "## 2026-01-15" -> <<"2026-01-15">>
      [] OTHER -> <<>>

\* the places of the header lines among the lines, in order
RECURSIVE HeadersFrom(_, _)
HeadersFrom(lines, i) ==
    IF i > Len(lines) THEN <<>>
    ELSE (IF HeaderMeaning(lines[i]) # <<>> THEN <<i>> ELSE <<>>)
             \o HeadersFrom(lines, i + 1)

\* the lines between the k-th header and the next, or the end
Segment(lines, headers, k) ==
    SubSeq(lines, headers[k] + 1,
           IF k < Len(headers) THEN headers[k + 1] - 1 ELSE Len(lines))

\* the lines of an entry's body
BodyLines(entry) == IF entry.content = "" THEN <<>> ELSE splitChar(entry.content, "\n")

\* sub holds elements of seq in the order of seq
RECURSIVE IsSubsequence(_, _)
IsSubsequence(sub, seq) ==
    IF Len(sub) = 0 THEN TRUE
    ELSE IF Len(seq) = 0 THEN FALSE
    ELSE IF Head(sub) = Head(seq) THEN IsSubsequence(Tail(sub), Tail(seq))
    ELSE IsSubsequence(sub, Tail(seq))

\* a line that holds more than spaces and tabs
NonBlank(line) == \E i \in 1..Len(line) : CharAt(line, i) \notin {" ", "\t"}

\* C16: parseMemoryFile returns one entry for each line that matches the
\* header pattern, in document order and with that line's timestamp; text
\* before the first header is in no entry and a log without a header has no
\* entry; a line that fails the pattern starts no entry: the body of an
\* entry is made of lines that stand between its header and the next, in
\* their order, and every non-blank line that stands there is one of them.
C16_OneEntryPerHeader ==
    Called => LET lines == LogLines
                  headers == HeadersFrom(lines, 1)
              IN /\ Len(call.entries) = Len(headers)
                 /\ \A k \in 1..Len(call.entries) :
                        LET body == BodyLines(call.entries[k])
                            segment == Segment(lines, headers, k)
                        IN /\ call.entries[k].dateTime = HeaderMeaning(lines[headers[k]])[1]
                           /\ IsSubsequence(body, segment)
                           /\ \A i \in 1..Len(segment) :
                                  NonBlank(segment[i])
                                      => \E j \in 1..Len(body) : body[j] = segment[i]

\* C17: while an entry is open, every non-blank line that is neither an
\* entry header nor the document's title line is appended to the entry's
\* body, joined by newlines and in order; a later line that starts with
\* "# " is kept.
C17_BodyKeepsHeadingLines ==
    Called => LET lines == LogLines
                  headers == HeadersFrom(lines, 1)
              IN \A k \in 1..Len(call.entries) :
                     BodyLines(call.entries[k])
                         = SelectSeq(Segment(lines, headers, k), LAMBDA line :
                               NonBlank(line) /\ line # "# Memory Log")

\* the first reminder token of the text, <<>> when it has none
RECURSIVE ReminderIn(_, _)
ReminderIn(text, i) ==
    IF i + 10 > Len(text) THEN <<>>
    ELSE IF /\ CharAt(text, i) = "@"
            /\ \A k \in {1, 2, 3, 4, 6, 7, 9, 10} : CharAt(text, i + k) \in DigitSet
            /\ CharAt(text, i + 5) = "-"
            /\ CharAt(text, i + 8) = "-"
    THEN <<SubSeq(text, i + 1, i + 10)>>
    ELSE ReminderIn(text, i + 1)

\* the reminder tokens of the entries, each looked for in the entry's header
\* and then in the lines up to the next header
ReminderOfEntries ==
    LET lines == LogLines
        headers == HeadersFrom(lines, 1)
    IN [k \in 1..Len(headers) |->
            ReminderIn(join(<<lines[headers[k]]>> \o Segment(lines, headers, k), "\n"), 1)]

\* C18: an entry's reminder date is the @YYYY-MM-DD token of its header or
\* its body, and get_reminders returns the entries whose token, wherever it
\* stands, is a date from today to the last day asked for.
C18_ReminderFromBody ==
    Called => LET reminders == ReminderOfEntries
              IN /\ \A k \in 1..Len(call.entries) :
                        call.entries[k].reminder = reminders[k]
                 /\ call.name = "get_reminders"
                        => LET days == IF call.args.days_ahead.t = "undefined" THEN 7
                                       ELSE call.args.days_ahead.tenths \div 10
                               today == isoDate(now)
                               last == isoDate(now + days * 1440)
                               due == {k \in 1..Len(call.entries) :
                                           /\ reminders[k] # <<>>
                                           /\ ~LexLess(reminders[k][1], today)
                                           /\ ~LexLess(last, reminders[k][1])}
                           IN {call.result[i].dateTime : i \in 1..Len(call.result)}
                                  = {call.entries[k].dateTime : k \in due}

\* the log as it is when it exists and holds nothing
EmptyLog == [exists |-> TRUE, text |-> ""]

\* C19: when the log file does not exist, every read operation returns what
\* it returns for a log that exists and holds no text, and for one that holds
\* the title only: an empty list, and for structure_search_notes the result
\* of a search that found nothing or the error of an empty query; the read
\* leaves the file missing.
C19_MissingIsEmpty ==
    [][(~log.exists /\ call' # NoCall)
        => /\ log' = log
           /\ IF call'.name = "extractReminders"
              THEN /\ call'.result = <<>>
                   /\ call'.result = extractReminders(EmptyLog)
                   /\ call'.result = extractReminders(ensureMemoryFile(log))
              ELSE LET request == ToolRequest(call'.name, call'.args)
                   IN /\ call'.entries = <<>>
                      /\ call'.result = callTool(EmptyLog, request).result
                      /\ call'.result = callTool(ensureMemoryFile(log), request).result
                      /\ IF call'.name = "structure_search_notes"
                         THEN \/ call'.result = [error |-> "query is empty"]
                              \/ /\ call'.result.results = <<>>
                                 /\ call'.result.totalMatches = 0
                         ELSE call'.result = <<>>]_vars

\* a search was handled while the file was missing
C19_ReadWhileMissing ==
    /\ call # NoCall
    /\ "name" \in DOMAIN call
    /\ ~log.exists
    /\ call.name = "structure_search_notes"
    /\ call.args.query = "rent"
    /\ call.result.results = <<>>

\* the day of a timestamp, which both date formats begin with
DayOf(dateTime) == SubSeq(dateTime, 1, 10)

\* C20: after Quick Add operations at either position, get_recent_notes
\* with limit N returns the N entries of the log with the greatest
\* timestamps: as many as the limit allows, none of an earlier day than an
\* entry that it leaves out.
C20_MostRecent ==
    (Called /\ call.name = "get_recent_notes")
        => LET limit == IF call.args.limit.t = "undefined" THEN 5
                        ELSE call.args.limit.tenths \div 10
               returned == {call.result[i] : i \in 1..Len(call.result)}
           IN /\ Len(call.result) = Min(limit, Len(call.entries))
              /\ \A k \in 1..Len(call.entries) :
                     call.entries[k] \notin returned
                         => \A i \in 1..Len(call.result) :
                                ~LexLess(DayOf(call.result[i].dateTime),
                                         DayOf(call.entries[k].dateTime))

(***************************************************************************)
(* Properties of the limit, the recency bonus and the response.            *)
(***************************************************************************)
\* the entries a call returned
ResultsOf(frame) ==
    IF frame.name = "structure_search_notes"
    THEN IF "results" \in DOMAIN frame.result THEN frame.result.results ELSE <<>>
    ELSE frame.result

\* a tool that takes a limit was called
LimitCalled ==
    /\ Called
    /\ call.name \in {"search_notes", "get_recent_notes", "structure_search_notes"}

\* C21: at each of the three call sites that take a limit, no call returns
\* more than 200 entries and a call whose limit is a number below 1 returns
\* what the same call returns with limit 1.
C21_LimitClamped ==
    LimitCalled
        => /\ Len(ResultsOf(call)) <= 200
           /\ (call.args.limit.t = "number" /\ call.args.limit.tenths < 10)
                  => ResultsOf(call)
                         = ResultsOf(callTool(log,
                               ToolRequest(call.name, [call.args EXCEPT !.limit = Num(1)])))

\* the time a timestamp of RecencyBlocks names, in minutes; <<>> when it
\* names no date
Birth(dateTime) ==
    CASE dateTime = "2026-01-29 12:00" -> <<minutesOf(2026, 1, 29, 12, 0)>>
      [] dateTime = "2026-01-29 11:59" -> <<minutesOf(2026, 1, 29, 11, 59)>>
      [] dateTime = "2026-01-09 12:00" -> <<minutesOf(2026, 1, 9, 12, 0)>>
      [] dateTime = "2025-11-07 12:00" -> <<minutesOf(2025, 11, 7, 12, 0)>>
      [] dateTime = "2025-08-12 12:00" -> <<minutesOf(2025, 8, 12, 12, 0)>>
      [] dateTime = "2025-08-09 11:59" -> <<minutesOf(2025, 8, 9, 11, 59)>>
      [] dateTime = "2026-03-01" -> <<minutesOf(2026, 3, 1, 0, 0)>>
      [] OTHER -> <<>>

\* the bonus of an age in minutes
BonusOfAge(age) ==
    IF age <= 7 * 1440 THEN 4
    ELSE IF age <= 30 * 1440 THEN 3
    ELSE IF age <= 90 * 1440 THEN 2
    ELSE IF age <= 180 * 1440 THEN 1
    ELSE 0

\* the bonus the call owes the entry
BonusOwed(entry) ==
    IF ~recencyOf(call.args) \/ Birth(entry.dateTime) = <<>> THEN 0
    ELSE BonusOfAge(now - Birth(entry.dateTime)[1])

\* the recency reasons among the reasons of a scored entry
RecencyReasons(s) ==
    {s.reasons[i] : i \in 1..Len(s.reasons)}
        \cap {"bonus:recent+" \o digitString(n) : n \in 0..4}

\* C22: with the recency flag set scoreEntry adds 4 for an age of at most 7
\* days, 3 for at most 30, 2 for at most 90, 1 for at most 180 and 0
\* otherwise, so that of two entries the older never has the greater
\* bonus; it records the reason exactly when the bonus is not zero; a
\* timestamp that is no date gives bonus 0 and the entry is scored as it is
\* without the bonus; with the flag not set nothing is added.
C22_BonusByAge ==
    Ok => \A k \in 1..Len(call.scored) :
              LET s == call.scored[k]
                  plain == scoreEntry(s.entry, call.result.expandedTokens,
                                      call.effectiveWeights[1], FALSE)
                  owed == BonusOwed(s.entry)
              IN /\ s.score = plain.score + owed
                 /\ s.matchedTokenCount = plain.matchedTokenCount
                 /\ RecencyReasons(s)
                        = IF owed > 0 THEN {"bonus:recent+" \o digitString(owed)} ELSE {}
                 /\ \A o \in 1..Len(call.scored) :
                        LET birth == Birth(s.entry.dateTime)
                            other == Birth(call.scored[o].entry.dateTime)
                        IN (birth # <<>> /\ other # <<>> /\ birth[1] <= other[1])
                               => s.score - plain.score
                                      <= call.scored[o].score
                                             - scoreEntry(call.scored[o].entry,
                                                          call.result.expandedTokens,
                                                          call.effectiveWeights[1], FALSE).score

\* the flag is set; an entry exactly seven days old has the bonus 4, an
\* entry one minute older has 3, and an entry whose timestamp is no date is
\* scored without a bonus
C22_OnTheStep ==
    /\ Ok
    /\ recencyOf(call.args)
    /\ \E a, b, g \in 1..Len(call.scored) :
           /\ call.scored[a].entry.dateTime = "2026-01-29 12:00"
           /\ now - Birth(call.scored[a].entry.dateTime)[1] = 7 * 1440
           /\ HasReason(call.scored[a], "bonus:recent+4")
           /\ call.scored[b].entry.dateTime = "2026-01-29 11:59"
           /\ HasReason(call.scored[b], "bonus:recent+3")
           /\ call.scored[g].entry.dateTime = "2026-13-45"
           /\ call.scored[g].score > 0
           /\ RecencyReasons(call.scored[g]) = {}

(***************************************************************************)
(* Properties of Quick Add.                                                *)
(***************************************************************************)
\* the step is a Quick Add of the input under the two settings
IsQuickAdd(input, position, dateFormat) ==
    /\ log' # log
    /\ log'.text = quickAdd(log, input, position, dateFormat)

\* seq without its k-th element
Without(seq, k) == SubSeq(seq, 1, k - 1) \o SubSeq(seq, k + 1, Len(seq))

\* s ends with suffix
EndsWith(s, suffix) ==
    /\ Len(suffix) <= Len(s)
    /\ SubSeq(s, Len(s) - Len(suffix) + 1, Len(s)) = suffix

\* C23: Quick Add at the top leaves a file that starts with the document
\* header followed at once by the new header block, and the new entry is
\* the first entry the parser returns; Quick Add at the bottom puts the
\* block at the end of the file, and the new entry is the last entry the
\* parser returns.
C23_PositionHonoured ==
    [][\A input \in QuickInputs, position \in EntryPositions, dateFormat \in DateFormats :
           IsQuickAdd(input, position, dateFormat)
               => LET before == parseMemoryFile(log)
                      after == parseMemoryFile(log')
                      stamp == formatDateTime(now, dateFormat)
                  IN /\ Len(after) = Len(before) + 1
                     /\ IF position = "top"
                        THEN /\ startsWith(log'.text, MEMORY_HEADER \o "\n## " \o stamp)
                             /\ after[1].dateTime = stamp
                             /\ Without(after, 1) = before
                        ELSE /\ \E k \in 1..Len(log'.text) :
                                    /\ SubSeq(log'.text, k, Len(log'.text))
                                           = quickAdd(EmptyLog, input, position, dateFormat)
                                    /\ SubSeq(log'.text, 1, k - 1) = ensureMemoryFile(log).text
                             /\ after[Len(after)].dateTime = stamp
                             /\ Without(after, Len(after)) = before]_vars

\* C27: under Quick Add at either position every entry the parser returned
\* before is returned after with the same timestamp, tags and body, and
\* these entries keep their order.
C27_EntriesKept ==
    [][log' # log => IsSubsequence(parseMemoryFile(log), parseMemoryFile(log'))]_vars

\* the hashtag tokens of what is typed into the Quick Add box (hash sign,
\* then word characters and hyphens), and the text without them, trimmed
TypedTags(input) ==
    CASE input = "#todo Buy milk" -> <<"#todo">>
      [] input = "call #work-log #a1  Bob" -> <<"#work-log", "#a1">>

TypedBody(input) ==
    CASE input = "#todo Buy milk" -> "Buy milk"
      [] input = "call #work-log #a1  Bob" -> "call Bob"

\* C28: after Quick Add the parser returns exactly one entry more than
\* before; the tags of that entry are the hashtag tokens of the input in
\* input order and its body is the input without those tokens, trimmed.
C28_RoundTrip ==
    [][\A input \in QuickInputs, position \in EntryPositions, dateFormat \in DateFormats :
           IsQuickAdd(input, position, dateFormat)
               => LET before == parseMemoryFile(log)
                      after == parseMemoryFile(log')
                  IN /\ Len(after) = Len(before) + 1
                     /\ \E k \in 1..Len(after) :
                            /\ Without(after, k) = before
                            /\ after[k].tags = TypedTags(input)
                            /\ after[k].content = TypedBody(input)]_vars

(***************************************************************************)
(* The editor's structure search and the server's.                         *)
(***************************************************************************)
\* the entry as the server scores it with its default weights and the
\* recency flag set
ServerScore(entry) == scoreEntry(entry, call.tokens, DEFAULT_WEIGHTS, TRUE)

SomeTokenFires(entry) == \E token \in Tokens : Fires(entry, token)

\* C25: with the recency bonus disabled and whatever the weight overrides,
\* an entry has a score above zero, and so stands among the entries the
\* handler ranks, if and only if at least one expanded token fires at least
\* one signal on it; the results hold only such entries, and all of them
\* while the limit has room.
C25_PositiveIffFired ==
    (Ok /\ ~recencyOf(call.args))
        => /\ \A k \in 1..Len(call.scored) :
                  call.scored[k].score > 0 <=> SomeTokenFires(call.scored[k].entry)
           /\ \A i \in 1..Len(call.result.results) :
                  SomeTokenFires(call.result.results[i].entry)
           /\ 10 * Len(call.result.results) < LimitTenths
                  => \A k \in 1..Len(call.scored) :
                         SomeTokenFires(call.scored[k].entry)
                             => \E i \in 1..Len(call.result.results) :
                                    call.result.results[i] = call.scored[k]

\* every weight the caller gave is 0; one entry is returned on which a
\* token fired, and another entry, on which none fired, is not
C25_ZeroOverrides ==
    /\ Ok
    /\ ~recencyOf(call.args)
    /\ call.args.weights = <<AllFields(Num(0))>>
    /\ Len(call.result.results) >= 1
    /\ \E k \in 1..Len(call.scored) : call.scored[k].score = 0

\* C26: in every response of structure_search_notes totalMatches is the
\* length of the results list, the count after truncation, and so is never
\* above the limit clamped into [1, 200].
C26_TotalIsReturned ==
    Ok => /\ call.result.totalMatches = Len(call.result.results)
          /\ 10 * call.result.totalMatches <= LimitTenths

\* more entries have a score above zero than the response counts
C26_MoreMatched ==
    /\ Ok
    /\ call.result.totalMatches >= 1
    /\ call.result.totalMatches < Len(Positive)

(***************************************************************************)
(* Properties of the reminders the editor lists.                           *)
(***************************************************************************)
Reminded == call # NoCall /\ call.name = "extractReminders"

\* the reminders stand in ascending order of their reminder date
RemindersSorted ==
    \A i \in 1..Len(call.result) : \A j \in 1..Len(call.result) :
        i < j => localeCompare(call.result[i].reminderDate,
                               call.result[j].reminderDate) <= 0

\* C29: every reminder extractReminders returns belongs to a recognized
\* entry header: its dateTime is not empty and its line is the index of a
\* header line of the log, so text before the first header produces no
\* reminder; and the reminders are sorted by reminder date, ascending.
C29_RemindersOfHeaders ==
    Reminded
        => LET lines == LogLines
           IN /\ \A i \in 1..Len(call.result) :
                     /\ call.result[i].dateTime # ""
                     /\ call.result[i].line + 1 \in 1..Len(lines)
                     /\ HeaderMeaning(lines[call.result[i].line + 1]) # <<>>
              /\ RemindersSorted

(***************************************************************************)
(* Properties of Quick Add commands under way together.                    *)
(***************************************************************************)
\* the commands that have written their entry
Written == {i \in QuickAddCommands : quickAdds[i].pc = "done"}

\* the orders in which the commands of a set may stand
OrdersOf(set) ==
    {order \in [1..Cardinality(set) -> set] :
         \A a, b \in 1..Cardinality(set) : a # b => order[a] # order[b]}

\* the entries of the commands, put one after the other in the order
RECURSIVE EntriesIn(_, _)
EntriesIn(order, k) ==
    IF k > Len(order) THEN ""
    ELSE quickAdds[order[k]].newEntry \o EntriesIn(order, k + 1)

\* C30: no update is lost between Quick Add commands under way together:
\* however their awaits interleave, once commands have written, the file is
\* the title followed by the entry of each of them, every one present, in
\* some order.
C30_NoLostUpdate ==
    Written # {}
        => /\ log.exists
           /\ \E order \in OrdersOf(Written) :
                  log.text = MEMORY_HEADER \o EntriesIn(order, 1)

\* both commands have written, and each had its input box open before the
\* other wrote
C30_BothOpenBeforeEitherWrote ==
    /\ Written = QuickAddCommands
    /\ \A i \in QuickAddCommands : ~quickAdds[i].seen.exists

=============================================================================
